---------------------------- MODULE Spec2Model ----------------------------
(***************************************************************************)
(* A model of the WebRTC fan-out layer of Sunshine (src/src/webrtc):       *)
(*   - Room: membership, player slots, gamepad slots, input permissions    *)
(*     (room.cpp), driven directly through its public operations           *)
(*     (SpecRoom, SpecGamepad) and through the signaling handlers (Spec);  *)
(*   - VideoSender: the H.264 RTP packetizer and the sender loop           *)
(*     (video_sender.cpp), on frames of real size (SpecVideo);             *)
(*   - Peer / PeerManager: the per-peer send queue, the sender thread and  *)
(*     the broadcast of RTP packets (peer.cpp) (SpecMedia).                *)
(* Every specification leaves the variables of the other parts at their    *)
(* initial values.                                                         *)
(***************************************************************************)
EXTENDS Integers, Sequences, FiniteSets, TLC

VARIABLES
    room,             \* <<>> or <<r>>: the Room object (fields below)
    last_call,        \* the last Room operation called: name, arguments, result
    rooms_,           \* RoomManager::rooms_: the registered room codes
    peer_to_room_,    \* RoomManager::peer_to_room_: peer ids indexed to the room
    next_conn_id_,    \* WebSocketServer::next_conn_id_: id of the next connection
    ws_to_peer_,      \* SignalingServer::ws_to_peer_/peer_to_ws_: open connections
    pm_peers_,        \* PeerManager::peers_: ids of the peers in the registry
    capture,          \* video/audio capture running (video::start_webrtc_capture)
    reply,            \* the last message the handler sent to the requesting peer
    running_,         \* VideoSender::running_
    v_pc,             \* where the video sender thread is in sender_loop
    v_frame,          \* the encoded frame the thread has popped
    v_last,           \* what became of the last frame popped
    emitted,          \* the RTP packets of that frame, as given to broadcast
    sequence_number_, \* VideoSender::sequence_number_ (uint16_t)
    stats_,           \* VideoSender::stats_
    n_frames,         \* how many frames have been popped in this run
    state_,           \* Peer::state_ of each peer
    sender_running_,  \* Peer::sender_running_ of each peer
    packet_queue_,    \* Peer::packet_queue_ of each peer
    in_flight,        \* the packet a peer's sender thread has taken off its queue
    track_open,       \* the tracks of each peer that are open (rtc::Track::isOpen)
    written,          \* per peer and track: sequence numbers of the last two
                      \* packets written to the track (-1: none), the place
                      \* of the last one among the packets the track's sender
                      \* numbered, and how many were numbered between the two
    numbered,         \* per track: how many packets its sender has numbered
    audio_sequence_number_, \* AudioSender::sequence_number_ (uint16_t)
    n_audio,          \* how many audio packets have been sent in this run
    close_pc,         \* where each caller of Peer::close is in it
    cb_pc,            \* where the library's callback thread is in onStateChange
    cb_new,           \* new_state of the onStateChange call in progress
    lib_state,        \* rtc::PeerConnection::State as the library holds it
    pc_closed,        \* pc_->close() has been called
    tracks_,          \* the tracks of each peer whose pointer is set
    data_channels_,   \* Peer::data_channels_ (labels)
    sender_thread_,   \* Peer::sender_thread_: "none" or "joinable"
    crashed,          \* std::terminate has been called
    n_sends,          \* how many packets were offered to Peer::send_video/audio
    input_call,       \* what the last input frame called of the system input
    claimed,          \* the (peer, browser id) pairs for which a claim of a
                      \* gamepad has succeeded in the room
    oc,               \* the on_close call in progress: its peer and the step
                      \* it is to take next ("idle": none in progress)
    cleanup,          \* the steps the last on_close call has finished
    sent,             \* the messages the last on_close step sent to others
    ws_running_,      \* WebSocketServerImpl::running_ (the io thread runs)
    sessions_,        \* WebSocketServerImpl::sessions_: ids of the sessions
    session_read,     \* per connection: "none", "pending" (async_read
                      \* outstanding), "closed" (ws_.close() has run, the
                      \* read still outstanding) or "ended" (on_read saw
                      \* an error and returned)
    close_posted,     \* connections whose Session::close is posted
    connect_calls,    \* per connection: calls of the connect callback
    disconnect_calls, \* per connection: calls of the disconnect callback
    spawned,          \* start_sender has started a thread of sender_loop
                      \* that it has not assigned to sender_thread_ yet
    spawn_flight,     \* the packet that thread has popped and not yet sent
    lk,               \* per calling thread: the operation it is in (op, its
                      \* arguments peer and label, its position at), the
                      \* mutexes it
                      \* holds (held) and the library operation it is
                      \* inside of (io)
    stop_pc,          \* where webrtc::start / webrtc::stop is
    audio_running_,   \* AudioSender::running_
    a_pc,             \* where the audio sender thread is in sender_loop
    s_pc,             \* where the video sender thread is in sender_loop,
                      \* the loop test apart from the pop
    vq,               \* a packet waits in the encoded-video queue
    aq,               \* a packet waits in the encoded-audio queue
    in_callback,      \* the connection whose disconnect callback the io
                      \* thread is running (0: none)
    last_send         \* the last WebSocketServerImpl::send: its connection,
                      \* what it returned, whether the connection had ended

roomVars == <<room, last_call>>
sigVars  == <<rooms_, peer_to_room_, next_conn_id_, ws_to_peer_, pm_peers_,
              capture, reply>>
videoVars == <<running_, v_pc, v_frame, v_last, emitted, sequence_number_,
               stats_, n_frames>>
peerVars == <<state_, sender_running_, packet_queue_, in_flight, track_open,
              written, numbered, audio_sequence_number_, n_audio>>
mediaVars == <<videoVars, peerVars>>
closeVars == <<close_pc, cb_pc, cb_new, lib_state, pc_closed, tracks_,
               data_channels_, sender_thread_, crashed, n_sends>>
inputVars == <<input_call, claimed>>
discVars == <<oc, cleanup, sent>>
wsVars == <<ws_running_, sessions_, session_read, close_posted,
            connect_calls, disconnect_calls>>
spawnVars == <<spawned, spawn_flight>>
lockVars == <<lk>>
stopVars == <<stop_pc, audio_running_, a_pc, s_pc, vq, aq>>
sendVars == <<in_callback, last_send>>
lateVars == <<lockVars, stopVars, sendVars>>
restVars == <<spawnVars, lateVars>>
auxVars == <<inputVars, discVars, wsVars, restVars>>
extVars == <<closeVars, auxVars>>
otherVars == <<mediaVars, extVars>>
nonRoomVars == <<sigVars, mediaVars, extVars>>
vars     == <<roomVars, nonRoomVars>>

-----------------------------------------------------------------------------
(* Bounds of the model.                                                    *)

\* peers (WebSocket connections) of the signaling specification
NumPeers == 2
\* peers offered to a Room driven through its operations (more than 4 players)
NumRoomPeers == 5
\* peers of the gamepad specification
NumGamepadPeers == 2
\* how many fresh server slots one run of the gamepad specification allocates
MaxFreshClaims == 2

\* frames the video sender pops in one run of SpecVideo
MaxFrames == 1
\* frames and audio packets, together, the senders pop in one run of SpecMedia
MaxMedia == 3
\* Peer::MAX_QUEUE_SIZE: peer.cpp uses it, the header that sets it is not in
\* src/; the model takes a small queue
MAX_QUEUE_SIZE == 2
\* tokens (start codes and single bytes) a small frame is made of
MaxTokens == 3

Peers        == 1..NumPeers
\* The peers in the PeerManager: the broadcast treats each peer by itself
\* (peer.cpp 788-808), the model follows one.
MediaPeers   == {1}
RoomPeers    == 1..NumRoomPeers
GamepadPeers == 1..NumGamepadPeers
\* browser gamepad ids offered to claim_gamepad
BrowserIds   == {0, 1}

-----------------------------------------------------------------------------
(* Program constants.                                                      *)

NONE == 0                      \* PlayerSlot::NONE
PLAYER_1 == 1                  \* PlayerSlot::PLAYER_1
MAX_PLAYER_SLOT == 4           \* next_available_slot: for (i = 1; i <= 4; ++i)
MAX_ROOM_PEERS == 16           \* add_spectator: peers_.size() >= 16
MAX_GAMEPAD_SLOTS == 16        \* claim_gamepad: server_slot >= 16
SINGLE_SESSION_CODE == "STREAM"
MAX_RTP_PAYLOAD == 1200
FU_A == 28
UINT16 == 65536

-----------------------------------------------------------------------------
(* Maps (std::unordered_map) as functions with a finite domain.            *)

EmptyMap == [x \in {} |-> x]
Erase(f, k) == [x \in DOMAIN f \ {k} |-> f[x]]
Put(f, k, v) == [x \in DOMAIN f \cup {k} |-> IF x = k THEN v ELSE f[x]]
Min(S) == CHOOSE x \in S : \A y \in S : x <= y
RemoveValue(s, v) == SelectSeq(s, LAMBDA x : x # v)

-----------------------------------------------------------------------------
(* Room (room.cpp).  A Room is a record of its fields; an operation is an  *)
(* operator from the Room (and its arguments) to [room, ret].              *)

HostInfo ==
    [slot |-> PLAYER_1, is_host |-> TRUE, is_spectator |-> FALSE,
     gamepad_ids |-> <<>>, can_use_keyboard |-> TRUE, can_use_mouse |-> TRUE]

SpectatorInfo ==
    [slot |-> NONE, is_host |-> FALSE, is_spectator |-> TRUE,
     gamepad_ids |-> <<>>, can_use_keyboard |-> FALSE, can_use_mouse |-> FALSE]

\* Room::Room(code, host_peer, host_name)
Room(host) ==
    [host_peer_id_ |-> host,
     players_ |-> Put(EmptyMap, host, HostInfo),
     peers_ |-> {host},
     gamepad_slot_owners_ |-> EmptyMap,
     peer_gamepad_mappings_ |-> EmptyMap,
     next_gamepad_slot_ |-> 0,
     default_keyboard_access_ |-> TRUE,
     default_mouse_access_ |-> TRUE]

\* a host test that every member passes
IsHostAnyMember(r, p) == p \in DOMAIN r.players_

\* Room::is_host
is_host(r, p) == p = r.host_peer_id_

\* Room::add_spectator
add_spectator(r, p) ==
    IF p \in DOMAIN r.players_ THEN [room |-> r, ret |-> FALSE]
    ELSE IF Cardinality(r.peers_) >= MAX_ROOM_PEERS THEN [room |-> r, ret |-> FALSE]
    ELSE [room |-> [r EXCEPT !.players_ = Put(@, p, SpectatorInfo),
                             !.peers_ = @ \cup {p}],
          ret |-> TRUE]

\* a slot numbered by the count of players, which collides after a player left
NextSlotByPlayerCount(r) ==
    LET n == Cardinality({x \in DOMAIN r.players_ : ~r.players_[x].is_spectator})
    IN  IF n < MAX_PLAYER_SLOT THEN n + 1 ELSE NONE

\* a slot search that goes one slot past PLAYER_4
NextSlotPastLast(r) ==
    LET used_slots == {r.players_[q].slot :
                          q \in {x \in DOMAIN r.players_ : ~r.players_[x].is_spectator}}
        free == {i \in 1..(MAX_PLAYER_SLOT + 1) : i \notin used_slots}
    IN  IF free # {} THEN Min(free) ELSE NONE

\* a slot search that starts after the highest slot held, so that a slot a
\* player vacated is not handed out again
NextSlotAfterHighest(r) ==
    LET used_slots == {r.players_[q].slot :
                          q \in {x \in DOMAIN r.players_ : ~r.players_[x].is_spectator}}
        free == {i \in 1..MAX_PLAYER_SLOT :
                    \A u \in used_slots : u < i}
    IN  IF free # {} THEN Min(free) ELSE NONE

\* Room::next_available_slot
next_available_slot(r) ==
    LET used_slots == {r.players_[q].slot :
                          q \in {x \in DOMAIN r.players_ : ~r.players_[x].is_spectator}}
        free == {i \in 1..MAX_PLAYER_SLOT : i \notin used_slots}
    IN  IF free # {} THEN Min(free) ELSE NONE

\* Room::promote_to_player
promote_to_player(r, p) ==
    IF p \notin DOMAIN r.players_ THEN [room |-> r, ret |-> NONE]
    ELSE IF ~r.players_[p].is_spectator THEN [room |-> r, ret |-> r.players_[p].slot]
    ELSE LET slot == next_available_slot(r)
         IN  IF slot = NONE THEN [room |-> r, ret |-> NONE]
             ELSE [room |-> [r EXCEPT !.players_[p].slot = slot,
                                      !.players_[p].is_spectator = FALSE],
                   ret |-> slot]

RemovePeerKeepsGamepads(r, p) ==
    IF p \notin DOMAIN r.players_ THEN [room |-> r, ret |-> FALSE]
    ELSE [room |-> [r EXCEPT !.players_ = Erase(@, p), !.peers_ = @ \ {p}],
          ret |-> r.players_[p].is_host]

RemovePeerNeverHost(r, p) ==
    IF p \notin DOMAIN r.players_ THEN [room |-> r, ret |-> FALSE]
    ELSE [room |-> [r EXCEPT
                      !.gamepad_slot_owners_ =
                          [s \in {x \in DOMAIN @ : @[x] # p} |-> @[s]],
                      !.peer_gamepad_mappings_ = Erase(@, p),
                      !.players_ = Erase(@, p),
                      !.peers_ = @ \ {p}],
          ret |-> FALSE]

\* Room::remove_peer
remove_peer(r, p) ==
    IF p \notin DOMAIN r.players_ THEN [room |-> r, ret |-> FALSE]
    ELSE LET was_host == r.players_[p].is_host
             released == IF p \in DOMAIN r.peer_gamepad_mappings_
                         THEN {r.peer_gamepad_mappings_[p][b] :
                                  b \in DOMAIN r.peer_gamepad_mappings_[p]}
                         ELSE {}
         IN  [room |-> [r EXCEPT
                          !.gamepad_slot_owners_ =
                              [s \in DOMAIN @ \ released |-> @[s]],
                          !.peer_gamepad_mappings_ = Erase(@, p),
                          !.players_ = Erase(@, p),
                          !.peers_ = @ \ {p}],
              ret |-> was_host]

ClaimGamepadAlwaysFresh(r, p, b) ==
    IF p \notin DOMAIN r.players_ \/ r.players_[p].is_spectator
    THEN [room |-> r, ret |-> -1]
    ELSE LET server_slot == r.next_gamepad_slot_
             m == IF p \in DOMAIN r.peer_gamepad_mappings_
                  THEN r.peer_gamepad_mappings_[p] ELSE EmptyMap
         IN  IF server_slot >= MAX_GAMEPAD_SLOTS
             THEN [room |-> [r EXCEPT !.peer_gamepad_mappings_ = Put(@, p, m)],
                   ret |-> -1]
             ELSE [room |-> [r EXCEPT
                              !.gamepad_slot_owners_ = Put(@, server_slot, p),
                              !.peer_gamepad_mappings_ = Put(@, p, Put(m, b, server_slot)),
                              !.players_[p].gamepad_ids = Append(@, server_slot),
                              !.next_gamepad_slot_ = @ + 1],
                   ret |-> server_slot]

\* a cap test that lets the counter reach one slot past the last
ClaimGamepadPastCap(r, p, b) ==
    IF p \notin DOMAIN r.players_ \/ r.players_[p].is_spectator
    THEN [room |-> r, ret |-> -1]
    ELSE LET peer_mapping == IF p \in DOMAIN r.peer_gamepad_mappings_
                             THEN r.peer_gamepad_mappings_[p] ELSE EmptyMap
             r1 == [r EXCEPT !.peer_gamepad_mappings_ = Put(@, p, peer_mapping)]
             server_slot == r.next_gamepad_slot_
         IN  IF b \in DOMAIN peer_mapping
             THEN [room |-> r1, ret |-> peer_mapping[b]]
             ELSE IF server_slot > MAX_GAMEPAD_SLOTS
             THEN [room |-> r1, ret |-> -1]
             ELSE [room |-> [r1 EXCEPT
                              !.gamepad_slot_owners_ = Put(@, server_slot, p),
                              !.peer_gamepad_mappings_[p] = Put(@, b, server_slot),
                              !.players_[p].gamepad_ids = Append(@, server_slot),
                              !.next_gamepad_slot_ = @ + 1],
                   ret |-> server_slot]

\* Room::claim_gamepad
\* a claim that hands out the lowest slot without an owner, so that a slot
\* that was released is given again
ClaimGamepadReusesFreed(r, p, b) ==
    IF p \notin DOMAIN r.players_ \/ r.players_[p].is_spectator
    THEN [room |-> r, ret |-> -1]
    ELSE LET peer_mapping == IF p \in DOMAIN r.peer_gamepad_mappings_
                             THEN r.peer_gamepad_mappings_[p] ELSE EmptyMap
             r1 == [r EXCEPT !.peer_gamepad_mappings_ = Put(@, p, peer_mapping)]
             free == (0..(MAX_GAMEPAD_SLOTS - 1)) \ DOMAIN r.gamepad_slot_owners_
         IN  IF b \in DOMAIN peer_mapping
             THEN [room |-> r1, ret |-> peer_mapping[b]]
             ELSE IF free = {}
             THEN [room |-> r1, ret |-> -1]
             ELSE LET server_slot == Min(free)
                  IN  [room |-> [r1 EXCEPT
                                  !.gamepad_slot_owners_ = Put(@, server_slot, p),
                                  !.peer_gamepad_mappings_[p] = Put(@, b, server_slot),
                                  !.players_[p].gamepad_ids = Append(@, server_slot),
                                  !.next_gamepad_slot_ =
                                      IF @ < MAX_GAMEPAD_SLOTS THEN @ + 1 ELSE @],
                       ret |-> server_slot]

claim_gamepad(r, p, b) ==
    IF p \notin DOMAIN r.players_ \/ r.players_[p].is_spectator
    THEN [room |-> r, ret |-> -1]
    ELSE \* peer_gamepad_mappings_[peer_id] inserts an empty map for a new key
         LET peer_mapping == IF p \in DOMAIN r.peer_gamepad_mappings_
                             THEN r.peer_gamepad_mappings_[p] ELSE EmptyMap
             r1 == [r EXCEPT !.peer_gamepad_mappings_ = Put(@, p, peer_mapping)]
             \* fetch_add(1); on server_slot >= 16 fetch_sub(1) undoes it
             server_slot == r.next_gamepad_slot_
         IN  IF b \in DOMAIN peer_mapping
             THEN [room |-> r1, ret |-> peer_mapping[b]]
             ELSE IF server_slot >= MAX_GAMEPAD_SLOTS
             THEN [room |-> r1, ret |-> -1]
             ELSE [room |-> [r1 EXCEPT
                              !.gamepad_slot_owners_ = Put(@, server_slot, p),
                              !.peer_gamepad_mappings_[p] = Put(@, b, server_slot),
                              !.players_[p].gamepad_ids = Append(@, server_slot),
                              !.next_gamepad_slot_ = @ + 1],
                   ret |-> server_slot]

\* a release that leaves the slot in the player's list of claimed slots
ReleaseGamepadKeepsList(r, p, s) ==
    IF s \notin DOMAIN r.gamepad_slot_owners_ \/ r.gamepad_slot_owners_[s] # p
    THEN [room |-> r, ret |-> TRUE]
    ELSE LET mapping == IF p \in DOMAIN r.peer_gamepad_mappings_
                        THEN r.peer_gamepad_mappings_[p] ELSE EmptyMap
             hits == {b \in DOMAIN mapping : mapping[b] = s}
             r1 == [r EXCEPT !.gamepad_slot_owners_ = Erase(@, s)]
             r2 == IF hits # {}
                   THEN [r1 EXCEPT !.peer_gamepad_mappings_[p] =
                                       Erase(@, CHOOSE b \in hits : TRUE)]
                   ELSE r1
         IN  [room |-> r2, ret |-> TRUE]

\* a release that leaves the peer's browser-to-server mapping as it was
ReleaseGamepadKeepsMapping(r, p, s) ==
    IF s \notin DOMAIN r.gamepad_slot_owners_ \/ r.gamepad_slot_owners_[s] # p
    THEN [room |-> r, ret |-> TRUE]
    ELSE LET r1 == [r EXCEPT !.gamepad_slot_owners_ = Erase(@, s)]
             r3 == IF p \in DOMAIN r1.players_
                   THEN [r1 EXCEPT !.players_[p].gamepad_ids = RemoveValue(@, s)]
                   ELSE r1
         IN  [room |-> r3, ret |-> TRUE]

\* Room::release_gamepad (returns void: ret is always TRUE)
release_gamepad(r, p, s) ==
    IF s \notin DOMAIN r.gamepad_slot_owners_ \/ r.gamepad_slot_owners_[s] # p
    THEN [room |-> r, ret |-> TRUE]
    ELSE LET mapping == IF p \in DOMAIN r.peer_gamepad_mappings_
                        THEN r.peer_gamepad_mappings_[p] ELSE EmptyMap
             hits == {b \in DOMAIN mapping : mapping[b] = s}
             \* the loop erases the first entry it meets with this value
             r1 == [r EXCEPT !.gamepad_slot_owners_ = Erase(@, s)]
             r2 == IF hits # {}
                   THEN [r1 EXCEPT !.peer_gamepad_mappings_[p] =
                                       Erase(@, CHOOSE b \in hits : TRUE)]
                   ELSE r1
             r3 == IF p \in DOMAIN r2.players_
                   THEN [r2 EXCEPT !.players_[p].gamepad_ids = RemoveValue(@, s)]
                   ELSE r2
         IN  [room |-> r3, ret |-> TRUE]

SetKeyboardAccessAlsoHost(r, p, enabled) ==
    IF p \notin DOMAIN r.players_ THEN [room |-> r, ret |-> FALSE]
    ELSE [room |-> [r EXCEPT !.players_[p].can_use_keyboard = enabled], ret |-> TRUE]

\* Room::set_keyboard_access
set_keyboard_access(r, p, enabled) ==
    IF p \notin DOMAIN r.players_ THEN [room |-> r, ret |-> FALSE]
    ELSE IF r.players_[p].is_host THEN [room |-> r, ret |-> TRUE]
    ELSE [room |-> [r EXCEPT !.players_[p].can_use_keyboard = enabled], ret |-> TRUE]

\* Room::set_mouse_access
set_mouse_access(r, p, enabled) ==
    IF p \notin DOMAIN r.players_ THEN [room |-> r, ret |-> FALSE]
    ELSE IF r.players_[p].is_host THEN [room |-> r, ret |-> TRUE]
    ELSE [room |-> [r EXCEPT !.players_[p].can_use_mouse = enabled], ret |-> TRUE]

-----------------------------------------------------------------------------
(* The Room driven through its public operations (a Room object that is    *)
(* not in the RoomManager).  last_call records the operation of the step:  *)
(* op, peer, arg (browser id, server slot or enabled flag as 0/1), the     *)
(* result (ret for int and PlayerSlot results, retb for bool results) and  *)
(* again: the call before it was the same operation with the same          *)
(* arguments (kept for claim_gamepad and remove_peer).  For remove_peer,   *)
(* owned is the number of gamepad slots the peer owned and first the       *)
(* result, both of the first call of a run of repeated calls.              *)

NoCall == [op |-> "none", peer |-> 0, arg |-> 0, ret |-> 0, retb |-> FALSE,
           again |-> FALSE, owned |-> 0, first |-> FALSE]

Call(op, p, a, ri, rb) ==
    [op |-> op, peer |-> p, arg |-> a, ret |-> ri, retb |-> rb,
     again |-> (op = "claim_gamepad" /\ last_call.op = op
                /\ last_call.peer = p /\ last_call.arg = a),
     owned |-> 0, first |-> FALSE]

TheRoom == room[1]
Members == IF room = <<>> THEN {} ELSE DOMAIN TheRoom.players_
OwnedSlots(r, p) == {s \in DOMAIN r.gamepad_slot_owners_ : r.gamepad_slot_owners_[s] = p}
B2N(b) == IF b THEN 1 ELSE 0

\* Room::Room
CreateRoom(h) ==
    /\ room = <<>>
    /\ room' = <<Room(h)>>
    /\ last_call' = Call("Room", h, 0, 0, TRUE)
    /\ UNCHANGED nonRoomVars

AddSpectator(p) ==
    /\ room # <<>>
    /\ LET res == add_spectator(TheRoom, p)
       IN  /\ room' = <<res.room>>
           /\ last_call' = Call("add_spectator", p, 0, 0, res.ret)
    /\ UNCHANGED nonRoomVars

PromoteToPlayer(p) ==
    /\ room # <<>>
    /\ LET res == promote_to_player(TheRoom, p)
       IN  /\ room' = <<res.room>>
           /\ last_call' = Call("promote_to_player", p, 0, res.ret, TRUE)
    /\ UNCHANGED nonRoomVars

RemovePeer(p) ==
    /\ room # <<>>
    /\ LET res == remove_peer(TheRoom, p)
           rep == last_call.op = "remove_peer" /\ last_call.peer = p
       IN  /\ room' = <<res.room>>
           /\ last_call' =
                [op |-> "remove_peer", peer |-> p, arg |-> 0, ret |-> 0,
                 retb |-> res.ret, again |-> rep,
                 owned |-> IF rep THEN last_call.owned
                           ELSE Cardinality(OwnedSlots(TheRoom, p)),
                 first |-> IF rep THEN last_call.first ELSE res.ret]
    /\ UNCHANGED nonRoomVars

Mapped(r, p, b) ==
    /\ p \in DOMAIN r.peer_gamepad_mappings_
    /\ b \in DOMAIN r.peer_gamepad_mappings_[p]

\* The runs explored allocate fresh server slots only at the two ends of the
\* counter's range 0..16: the first slot and the last MaxFreshClaims slots.
FreshClaimInBounds(r) ==
    \/ r.next_gamepad_slot_ = 0
    \/ r.next_gamepad_slot_ >= MAX_GAMEPAD_SLOTS - MaxFreshClaims

ClaimGamepad(p, b) ==
    /\ room # <<>>
    /\ Mapped(TheRoom, p, b) \/ FreshClaimInBounds(TheRoom)
    /\ LET res == claim_gamepad(TheRoom, p, b)
       IN  /\ room' = <<res.room>>
           /\ last_call' = Call("claim_gamepad", p, b, res.ret, TRUE)
    /\ UNCHANGED nonRoomVars

\* release_gamepad reads of its slot argument only whether it has an owner and
\* who that is: every owned slot is offered, and one slot without an owner.
ReleaseInputs(r) ==
    LET all == 0..(MAX_GAMEPAD_SLOTS - 1)
        free == all \ DOMAIN r.gamepad_slot_owners_
    IN  DOMAIN r.gamepad_slot_owners_ \cup (IF free = {} THEN {} ELSE {Min(free)})

\* the ownership test of release_gamepad
OwnsSlot(r, p, s) ==
    s \in DOMAIN r.gamepad_slot_owners_ /\ r.gamepad_slot_owners_[s] = p

ReleaseGamepad(p, s) ==
    /\ room # <<>>
    /\ LET res == release_gamepad(TheRoom, p, s)
       IN  /\ room' = <<res.room>>
           /\ last_call' = [Call("release_gamepad", p, s, 0, TRUE) EXCEPT
                              !.owned = B2N(OwnsSlot(TheRoom, p, s))]
    /\ UNCHANGED nonRoomVars

SigInit ==
    /\ rooms_ = {}
    /\ peer_to_room_ = {}
    /\ next_conn_id_ = 1
    /\ ws_to_peer_ = {}
    /\ pm_peers_ = {}
    /\ capture = FALSE
    /\ reply = "none"

VideoInit(seq) ==
    /\ running_ = FALSE
    /\ v_pc = "stopped"
    /\ v_frame = <<>>
    /\ v_last = "none"
    /\ emitted = <<>>
    /\ sequence_number_ = seq
    /\ stats_ = [frames_sent |-> 0]
    /\ n_frames = 0

Kinds == {"video", "audio"}

PeerInit(aseq) ==
    /\ state_ = [p \in MediaPeers |-> "CONNECTING"]
    /\ sender_running_ = [p \in MediaPeers |-> FALSE]
    /\ packet_queue_ = [p \in MediaPeers |-> <<>>]
    /\ in_flight = [p \in MediaPeers |-> <<>>]
    /\ track_open = [p \in MediaPeers |-> {}]
    /\ written = [p \in MediaPeers |->
                    [k \in Kinds |->
                        [prev |-> -1, cur |-> -1, ord |-> -1, gap |-> 0]]]
    /\ numbered = [k \in Kinds |-> 0]
    /\ audio_sequence_number_ = aseq
    /\ n_audio = 0

\* bound: callers of Peer::close on one peer
NumClosers == 2
Closers == 1..NumClosers

\* Peer::create and add_video_track / add_audio_track / handle_data_channel
\* done; no close() called, no callback running
CloseInit ==
    /\ close_pc = [c \in Closers |-> "idle"]
    /\ cb_pc = "idle"
    /\ cb_new = "CONNECTING"
    /\ lib_state = "New"
    /\ pc_closed = FALSE
    /\ tracks_ = [p \in MediaPeers |-> Kinds]
    /\ data_channels_ = {"input"}
    /\ sender_thread_ = "none"
    /\ crashed = FALSE
    /\ n_sends = 0

MediaInit == VideoInit(0) /\ PeerInit(0)

NoInput == [peer |-> 0, fn |-> "none"]

\* no connection has been closed
DiscInit ==
    /\ oc = [peer |-> 0, pc |-> "idle"]
    /\ cleanup = <<>>
    /\ sent = {}

\* connections the WebSocket server accepts
NumConns == 3
Conns == 1..NumConns

\* WebSocketServerImpl::start has returned true; no connection accepted
WsInit ==
    /\ ws_running_ = TRUE
    /\ sessions_ = {}
    /\ session_read = [c \in Conns |-> "none"]
    /\ close_posted = {}
    /\ connect_calls = [c \in Conns |-> 0]
    /\ disconnect_calls = [c \in Conns |-> 0]

\* no thread started by a start_sender call in progress
SpawnInit ==
    /\ spawned = FALSE
    /\ spawn_flight = <<>>

\* bound: threads calling into the peer, the Peer Registry and the transport
NumLockThreads == 2
LockThreads == 1..NumLockThreads

NoOp == [op |-> "idle", peer |-> 0, label |-> "", at |-> "idle", held |-> {},
         io |-> "none"]

\* no call in progress, no mutex held
LockInit == lk = [t \in LockThreads |-> NoOp]

\* webrtc::start has started the signaling server and not yet the senders;
\* the encoder's queues are empty
StopInit ==
    /\ stop_pc = "start"
    /\ audio_running_ = FALSE
    /\ a_pc = "stopped"
    /\ s_pc = "stopped"
    /\ vq = FALSE
    /\ aq = FALSE

NoSend == [conn |-> 0, ret |-> FALSE, ended |-> FALSE]

\* the io thread runs no disconnect callback; send not called yet
SendInit ==
    /\ in_callback = 0
    /\ last_send = NoSend

ExtraInit == DiscInit /\ WsInit /\ SpawnInit /\ LockInit /\ StopInit /\ SendInit

\* no input frame received, no claim_gamepad message
InputInit ==
    /\ input_call = NoInput
    /\ claimed = {}

(* SpecRoom: membership and player slots, with more peers than slots.  The *)
(* Room treats peer ids alike, so peer 1 stands for whichever peer creates  *)
(* the room.                                                               *)
InitRoom ==
    /\ room = <<>>
    /\ last_call = NoCall
    /\ SigInit
    /\ MediaInit
    /\ CloseInit
    /\ ExtraInit
    /\ InputInit

NextRoom ==
    \/ CreateRoom(1)
    \/ \E p \in RoomPeers :
        \/ AddSpectator(p)
        \/ PromoteToPlayer(p)
        \/ RemovePeer(p)

SpecRoom == InitRoom /\ [][NextRoom]_vars

(* SpecGamepad: gamepad slots.  The Room starts as constructed by peer 1,  *)
(* or as it is after the host claimed and released a gamepad n times, so   *)
(* that the allocation counter is MaxFreshClaims short of the cap.         *)
RECURSIVE Churn(_, _, _)
Churn(r, h, n) ==
    IF n = 0 THEN r
    ELSE LET c == claim_gamepad(r, h, 0)
         IN  Churn(release_gamepad(c.room, h, c.ret).room, h, n - 1)

InitGamepad ==
    /\ \E n \in {0, MAX_GAMEPAD_SLOTS - MaxFreshClaims} :
           room = <<Churn(Room(1), 1, n)>>
    /\ last_call = NoCall
    /\ SigInit
    /\ MediaInit
    /\ CloseInit
    /\ ExtraInit
    /\ InputInit

NextGamepad ==
    \E p \in GamepadPeers :
        \/ AddSpectator(p)
        \/ PromoteToPlayer(p)
        \/ RemovePeer(p)
        \/ \E b \in BrowserIds : ClaimGamepad(p, b)
        \/ \E s \in ReleaseInputs(TheRoom) : ReleaseGamepad(p, s)

SpecGamepad == InitGamepad /\ [][NextGamepad]_vars

-----------------------------------------------------------------------------
(* Spec: the signaling handlers (signaling.cpp) on the single session room. *)
(* The WebSocket server runs its callbacks on one I/O thread               *)
(* (ws_server.cpp 150-153), so a handler runs to its end before the next.  *)
(* A peer's id is made of its connection id, which is never given twice.   *)

\* RoomManager::find_room(SINGLE_SESSION_CODE)
find_room == SINGLE_SESSION_CODE \in rooms_

\* RoomManager::find_room_by_peer
find_room_by_peer(p) == p \in peer_to_room_ /\ SINGLE_SESSION_CODE \in rooms_

\* RoomManager::add_room: both indexes are updated together
add_room(h) ==
    /\ rooms_' = rooms_ \cup {SINGLE_SESSION_CODE}
    /\ peer_to_room_' = peer_to_room_ \cup {h}

\* RoomManager::register_peer
register_peer(p) ==
    /\ peer_to_room_' = peer_to_room_ \cup {p}
    /\ UNCHANGED rooms_

\* RoomManager::remove_room followed by the room_count() == 0 test: with the
\* one session room gone, capture is stopped.
RemoveRoomKeepsIndex ==
    /\ rooms_' = {}
    /\ UNCHANGED peer_to_room_
    /\ capture' = FALSE

RemoveRoomKeepsCapture ==
    /\ rooms_' = {}
    /\ peer_to_room_' = {}
    /\ UNCHANGED capture

remove_room ==
    /\ rooms_' = {}
    /\ peer_to_room_' = {}
    /\ capture' = FALSE

\* Room::set_default_keyboard_access
set_default_keyboard_access(r, enabled) ==
    [r EXCEPT !.default_keyboard_access_ = enabled]

\* Room::set_default_mouse_access
set_default_mouse_access(r, enabled) ==
    [r EXCEPT !.default_mouse_access_ = enabled]

OnWsConnect ==
    /\ next_conn_id_ <= NumPeers
    /\ next_conn_id_' = next_conn_id_ + 1
    /\ ws_to_peer_' = ws_to_peer_ \cup {next_conn_id_}
    /\ UNCHANGED <<roomVars, rooms_, peer_to_room_, pm_peers_, capture, reply>>
    /\ UNCHANGED otherVars

\* The part on_close and handle_leave_room share: PeerManager::remove_peer,
\* Room::remove_peer, and remove_room when the host left.
LeaveRoom(p) ==
    /\ pm_peers_' = pm_peers_ \ {p}
    /\ LET res == remove_peer(TheRoom, p)
       IN  /\ last_call' = Call("remove_peer", p, 0, 0, res.ret)
           /\ IF res.ret
              THEN room' = <<>> /\ remove_room
              ELSE /\ room' = <<res.room>>
                   /\ UNCHANGED <<rooms_, peer_to_room_, capture>>

\* SignalingServer::on_ws_disconnect, on_close
OnClose(p) ==
    /\ p \in ws_to_peer_
    /\ IF find_room_by_peer(p)
       THEN LeaveRoom(p)
       ELSE /\ pm_peers_' = pm_peers_ \ {p}
            /\ UNCHANGED <<roomVars, rooms_, peer_to_room_, capture>>
    /\ ws_to_peer_' = ws_to_peer_ \ {p}
    /\ reply' = "none"
    /\ UNCHANGED <<next_conn_id_, otherVars>>

\* SignalingServer::handle_join
HandleJoin(p) ==
    /\ p \in ws_to_peer_
    /\ IF ~find_room
       THEN /\ capture' = TRUE
            /\ pm_peers_' = pm_peers_ \cup {p}
            /\ room' = <<Room(p)>>
            /\ last_call' = Call("Room", p, 0, 0, TRUE)
            /\ add_room(p)
            /\ reply' = "room_created"
       ELSE LET res == add_spectator(TheRoom, p)
            IN  /\ last_call' = Call("add_spectator", p, 0, 0, res.ret)
                /\ IF ~res.ret
                   THEN /\ pm_peers_' = pm_peers_ \ {p}
                        /\ reply' = "join_error"
                        /\ UNCHANGED <<room, rooms_, peer_to_room_, capture>>
                   ELSE /\ pm_peers_' = pm_peers_ \cup {p}
                        /\ room' = <<res.room>>
                        /\ register_peer(p)
                        /\ reply' = "room_joined"
                        /\ UNCHANGED capture
    /\ UNCHANGED <<next_conn_id_, ws_to_peer_, otherVars>>

\* SignalingServer::handle_leave_room
HandleLeaveRoom(p) ==
    /\ p \in ws_to_peer_
    /\ IF ~find_room_by_peer(p)
       THEN /\ reply' = "not_in_room"
            /\ UNCHANGED <<roomVars, rooms_, peer_to_room_, pm_peers_, capture>>
       ELSE /\ LeaveRoom(p)
            /\ reply' = "left_room"
    /\ UNCHANGED <<next_conn_id_, ws_to_peer_, otherVars>>

\* SignalingServer::handle_join_as_player
HandleJoinAsPlayer(p) ==
    /\ p \in ws_to_peer_
    /\ IF ~find_room_by_peer(p)
       THEN reply' = "not_in_room" /\ UNCHANGED roomVars
       ELSE LET res == promote_to_player(TheRoom, p)
            IN  /\ room' = <<res.room>>
                /\ last_call' = Call("promote_to_player", p, 0, res.ret, TRUE)
                /\ reply' = IF res.ret = NONE THEN "room_full"
                            ELSE "promoted_to_player"
    /\ UNCHANGED <<rooms_, peer_to_room_, next_conn_id_, ws_to_peer_,
                   pm_peers_, capture, otherVars>>

\* SignalingServer::handle_set_guest_keyboard
HandleSetGuestKeyboard(p, target, enabled) ==
    /\ p \in ws_to_peer_
    /\ IF ~find_room_by_peer(p)
       THEN reply' = "not_in_room" /\ UNCHANGED roomVars
       ELSE IF ~is_host(TheRoom, p)
       THEN reply' = "not_host" /\ UNCHANGED roomVars
       ELSE LET r1 == set_default_keyboard_access(TheRoom, enabled)
                res == set_keyboard_access(r1, target, enabled)
            IN  /\ room' = <<res.room>>
                /\ last_call' = Call("set_keyboard_access", target,
                                     B2N(enabled), 0, res.ret)
                /\ reply' = IF res.ret THEN "room_updated" ELSE "none"
    /\ UNCHANGED <<rooms_, peer_to_room_, next_conn_id_, ws_to_peer_,
                   pm_peers_, capture, otherVars>>

\* SignalingServer::handle_set_guest_mouse
HandleSetGuestMouse(p, target, enabled) ==
    /\ p \in ws_to_peer_
    /\ IF ~find_room_by_peer(p)
       THEN reply' = "not_in_room" /\ UNCHANGED roomVars
       ELSE IF ~is_host(TheRoom, p)
       THEN reply' = "not_host" /\ UNCHANGED roomVars
       ELSE LET r1 == set_default_mouse_access(TheRoom, enabled)
                res == set_mouse_access(r1, target, enabled)
            IN  /\ room' = <<res.room>>
                /\ last_call' = Call("set_mouse_access", target,
                                     B2N(enabled), 0, res.ret)
                /\ reply' = IF res.ret THEN "room_updated" ELSE "none"
    /\ UNCHANGED <<rooms_, peer_to_room_, next_conn_id_, ws_to_peer_,
                   pm_peers_, capture, otherVars>>

Init ==
    /\ room = <<>>
    /\ last_call = NoCall
    /\ SigInit
    /\ MediaInit
    /\ CloseInit
    /\ ExtraInit
    /\ InputInit

Next ==
    \/ OnWsConnect
    \/ \E p \in Peers :
        \/ OnClose(p)
        \/ HandleJoin(p)
        \/ HandleLeaveRoom(p)
        \/ HandleJoinAsPlayer(p)
        \/ \E t \in Peers, e \in BOOLEAN :
            \/ HandleSetGuestKeyboard(p, t, e)
            \/ HandleSetGuestMouse(p, t, e)

Spec == Init /\ [][Next]_vars

-----------------------------------------------------------------------------
(* Input frames (input.cpp 125-234) and the gamepad messages of the        *)
(* signaling channel (signaling.cpp 717-755).  A frame arrives on the data *)
(* channel of a peer of the PeerManager; input_call records the function   *)
(* of the system input the frame's handler called, "none" when it          *)
(* returned without a call.                                                *)

\* the session after n connections sent join: peer 1 created it, the
\* others are its spectators
RECURSIVE JoinedRoom(_)
JoinedRoom(n) ==
    IF n = 1 THEN Room(1) ELSE add_spectator(JoinedRoom(n - 1), n).room

\* Room::get_gamepad_slot
get_gamepad_slot(r, p, b) ==
    IF p \notin DOMAIN r.peer_gamepad_mappings_ THEN -1
    ELSE IF b \notin DOMAIN r.peer_gamepad_mappings_[p] THEN -1
    ELSE r.peer_gamepad_mappings_[p][b]

\* Room::can_use_keyboard
can_use_keyboard(r, p) ==
    IF p \notin DOMAIN r.players_ THEN FALSE ELSE r.players_[p].can_use_keyboard

\* Room::can_use_mouse
can_use_mouse(r, p) ==
    IF p \notin DOMAIN r.players_ THEN FALSE ELSE r.players_[p].can_use_mouse

InputCall(p, f) == [peer |-> p, fn |-> f]

sigFrameVars == <<sigVars, mediaVars, closeVars, discVars, wsVars, restVars>>

\* a keyboard handler that asks whether the peer is a player
ProcessKeyboardOfPlayers(p) ==
    /\ p \in pm_peers_
    /\ input_call' =
         IF ~find_room_by_peer(p) THEN InputCall(p, "none")
         ELSE IF p \notin Members \/ TheRoom.players_[p].is_spectator
         THEN InputCall(p, "none")
         ELSE InputCall(p, "keyboard")
    /\ UNCHANGED <<roomVars, sigFrameVars, claimed>>

\* InputHandler::process_keyboard
ProcessKeyboard(p) ==
    /\ p \in pm_peers_
    /\ input_call' =
         IF ~find_room_by_peer(p) THEN InputCall(p, "none")
         ELSE IF ~can_use_keyboard(TheRoom, p) THEN InputCall(p, "none")
         ELSE InputCall(p, "keyboard")
    /\ UNCHANGED <<roomVars, sigFrameVars, claimed>>

\* InputHandler::process_mouse_move
ProcessMouseMove(p, is_absolute) ==
    /\ p \in pm_peers_
    /\ input_call' =
         IF ~find_room_by_peer(p) THEN InputCall(p, "none")
         ELSE IF ~can_use_mouse(TheRoom, p) THEN InputCall(p, "none")
         ELSE IF is_absolute THEN InputCall(p, "mouse_move_abs")
         ELSE InputCall(p, "mouse_move_rel")
    /\ UNCHANGED <<roomVars, sigFrameVars, claimed>>

\* InputHandler::process_mouse_button
ProcessMouseButton(p) ==
    /\ p \in pm_peers_
    /\ input_call' =
         IF ~find_room_by_peer(p) THEN InputCall(p, "none")
         ELSE IF ~can_use_mouse(TheRoom, p) THEN InputCall(p, "none")
         ELSE InputCall(p, "mouse_button")
    /\ UNCHANGED <<roomVars, sigFrameVars, claimed>>

\* InputHandler::process_mouse_scroll: a call for each delta that is not 0
ProcessMouseScroll(p, delta_x, delta_y) ==
    /\ p \in pm_peers_
    /\ input_call' =
         IF ~find_room_by_peer(p) THEN InputCall(p, "none")
         ELSE IF ~can_use_mouse(TheRoom, p) THEN InputCall(p, "none")
         ELSE IF delta_y # 0 \/ delta_x # 0 THEN InputCall(p, "mouse_scroll")
         ELSE InputCall(p, "none")
    /\ UNCHANGED <<roomVars, sigFrameVars, claimed>>

\* InputHandler::process_gamepad: a gamepad that is not claimed is claimed
ProcessGamepad(p, b) ==
    /\ p \in pm_peers_
    /\ IF ~find_room_by_peer(p)
       THEN input_call' = InputCall(p, "none") /\ UNCHANGED <<roomVars, claimed>>
       ELSE IF p \notin Members \/ TheRoom.players_[p].is_spectator
       THEN input_call' = InputCall(p, "none") /\ UNCHANGED <<roomVars, claimed>>
       ELSE IF get_gamepad_slot(TheRoom, p, b) >= 0
       THEN input_call' = InputCall(p, "gamepad") /\ UNCHANGED <<roomVars, claimed>>
       ELSE /\ FreshClaimInBounds(TheRoom)
            /\ LET res == claim_gamepad(TheRoom, p, b)
               IN  /\ room' = <<res.room>>
                   /\ last_call' = Call("claim_gamepad", p, b, res.ret, TRUE)
                   /\ IF res.ret < 0
                      THEN /\ input_call' = InputCall(p, "none")
                           /\ UNCHANGED claimed
                      ELSE /\ input_call' = InputCall(p, "gamepad")
                           /\ claimed' = claimed \cup {<<p, b>>}
    /\ UNCHANGED sigFrameVars

\* the promoted_to_player message of handle_join_as_player
PromotedReply(r, slot) ==
    [type |-> "promoted_to_player",
     player_slot |-> slot,
     keyboard_enabled |-> r.default_keyboard_access_,
     mouse_enabled |-> r.default_mouse_access_]

sigGamepadVars == <<rooms_, peer_to_room_, next_conn_id_, ws_to_peer_,
                    pm_peers_, capture, mediaVars, closeVars, input_call,
                    discVars, wsVars, restVars>>

\* SignalingServer::handle_claim_gamepad
HandleClaimGamepad(p, b) ==
    /\ p \in ws_to_peer_
    /\ IF ~find_room_by_peer(p)
       THEN reply' = "not_in_room" /\ UNCHANGED <<roomVars, claimed>>
       ELSE /\ Mapped(TheRoom, p, b) \/ FreshClaimInBounds(TheRoom)
            /\ LET res == claim_gamepad(TheRoom, p, b)
               IN  /\ room' = <<res.room>>
                   /\ last_call' = Call("claim_gamepad", p, b, res.ret, TRUE)
                   /\ IF res.ret < 0
                      THEN reply' = "gamepad_error" /\ UNCHANGED claimed
                      ELSE /\ reply' = "gamepad_claimed"
                           /\ claimed' = claimed \cup {<<p, b>>}
    /\ UNCHANGED sigGamepadVars

\* SignalingServer::handle_release_gamepad
HandleReleaseGamepad(p, s) ==
    /\ p \in ws_to_peer_
    /\ IF ~find_room_by_peer(p)
       THEN reply' = "not_in_room" /\ UNCHANGED roomVars
       ELSE LET res == release_gamepad(TheRoom, p, s)
            IN  /\ room' = <<res.room>>
                /\ last_call' = Call("release_gamepad", p, s, 0, TRUE)
                /\ reply' = "gamepad_released"
    /\ UNCHANGED <<sigGamepadVars, claimed>>

(* SpecInput: input frames of every kind in a session that peer 1 has      *)
(* created, with the other connections open.  The guests join, become      *)
(* players and leave, and every peer sends permission messages; the host   *)
(* stays (Spec has the host leaving).                                      *)
InitInput ==
    /\ room = <<Room(1)>>
    /\ last_call = [NoCall EXCEPT !.op = "Room", !.peer = 1, !.retb = TRUE]
    /\ rooms_ = {SINGLE_SESSION_CODE}
    /\ peer_to_room_ = {1}
    /\ next_conn_id_ = NumPeers + 1
    /\ ws_to_peer_ = Peers
    /\ pm_peers_ = {1}
    /\ capture = TRUE
    /\ reply = "room_created"
    /\ MediaInit
    /\ CloseInit
    /\ ExtraInit
    /\ InputInit

NextInput ==
    \/ \E p \in Peers \ {1} : HandleJoin(p)
    \/ \E p \in Peers \ {1} : HandleLeaveRoom(p)
    \/ \E p \in Peers \ {1} : HandleJoinAsPlayer(p)
    \/ \E p \in Peers, t \in Peers, e \in BOOLEAN :
           HandleSetGuestKeyboard(p, t, e)
    \/ \E p \in Peers, t \in Peers, e \in BOOLEAN :
           HandleSetGuestMouse(p, t, e)
    \/ \E p \in Peers : ProcessKeyboard(p)
    \/ \E p \in Peers, a \in BOOLEAN : ProcessMouseMove(p, a)
    \/ \E p \in Peers : ProcessMouseButton(p)
    \/ \E p \in Peers, dx \in {0, 1}, dy \in {0, 1} :
           ProcessMouseScroll(p, dx, dy)
    \/ \E p \in Peers, b \in BrowserIds : ProcessGamepad(p, b)

SpecInput == InitInput /\ [][NextInput]_vars

(* SpecKeyboard: keyboard frames and keyboard permission messages in the   *)
(* session of SpecInput.                                                   *)
NextKeyboard ==
    \/ \E p \in Peers \ {1} : HandleJoin(p)
    \/ \E p \in Peers \ {1} : HandleLeaveRoom(p)
    \/ \E p \in Peers \ {1} : HandleJoinAsPlayer(p)
    \/ \E p \in Peers, t \in Peers, e \in BOOLEAN :
           HandleSetGuestKeyboard(p, t, e)
    \/ \E p \in Peers : ProcessKeyboard(p)

SpecKeyboard == InitInput /\ [][NextKeyboard]_vars

(* SpecPermissions: the permission messages of every peer, host or not, in *)
(* the session of SpecInput, where guests join and leave.                  *)
NextPermissions ==
    \/ \E p \in Peers \ {1} : HandleJoin(p)
    \/ \E p \in Peers \ {1} : HandleLeaveRoom(p)
    \/ \E p \in Peers, t \in Peers, e \in BOOLEAN :
           HandleSetGuestKeyboard(p, t, e)
    \/ \E p \in Peers, t \in Peers, e \in BOOLEAN :
           HandleSetGuestMouse(p, t, e)

SpecPermissions == InitInput /\ [][NextPermissions]_vars

(* SpecClaims: claim_gamepad and release_gamepad messages in a session     *)
(* that NumPeers connections have joined and whose host has claimed        *)
(* PreClaimed gamepads, browser ids 2, 3, ..., so that MaxFreshClaims      *)
(* server slots are left; the guests become players, and gamepad frames   *)
(* arrive in between.                                                      *)
PreClaimed == MAX_GAMEPAD_SLOTS - MaxFreshClaims

RECURSIVE ClaimedRoom(_)
ClaimedRoom(n) ==
    IF n = 0 THEN JoinedRoom(NumPeers)
    ELSE claim_gamepad(ClaimedRoom(n - 1), 1, n + 1).room

InitClaims ==
    /\ room = <<ClaimedRoom(PreClaimed)>>
    /\ last_call = [NoCall EXCEPT !.op = "claim_gamepad", !.peer = 1,
                                  !.arg = PreClaimed + 1,
                                  !.ret = PreClaimed - 1, !.retb = TRUE]
    /\ rooms_ = {SINGLE_SESSION_CODE}
    /\ peer_to_room_ = Peers
    /\ next_conn_id_ = NumPeers + 1
    /\ ws_to_peer_ = Peers
    /\ pm_peers_ = Peers
    /\ capture = TRUE
    /\ reply = "gamepad_claimed"
    /\ MediaInit
    /\ CloseInit
    /\ ExtraInit
    /\ input_call = NoInput
    /\ claimed = {<<1, b>> : b \in 2..(PreClaimed + 1)}

NextClaims ==
    \/ \E p \in Peers, b \in BrowserIds : HandleClaimGamepad(p, b)
    \/ \E p \in Peers, s \in PreClaimed..(MAX_GAMEPAD_SLOTS - 1) :
           HandleReleaseGamepad(p, s)
    \/ \E p \in Peers \ {1} : HandleJoinAsPlayer(p)
    \/ \E p \in Peers, b \in BrowserIds : ProcessGamepad(p, b)

SpecClaims == InitClaims /\ [][NextClaims]_vars

-----------------------------------------------------------------------------
(* process_input (input.cpp 28-123): the frame's first byte is its type,   *)
(* its size decides whether the handler of the type is called.             *)

\* InputType (input.h)
GAMEPAD_STATE == 1
GAMEPAD_RUMBLE == 2
KEYBOARD_KEY == 16
MOUSE_MOVE == 32
MOUSE_BUTTON == 33
MOUSE_SCROLL == 34
\* a first byte that is no InputType
UNKNOWN_TYPE == 255

\* a length test that passes a keyboard frame one byte short
FrameLengthShortKeyboard(type) ==
    CASE type = GAMEPAD_STATE -> 14
      [] type = KEYBOARD_KEY -> 4
      [] type = MOUSE_MOVE -> 6
      [] type = MOUSE_BUTTON -> 3
      [] type = MOUSE_SCROLL -> 6
      [] OTHER -> 0

\* the size the case of the type tests for; 0: the switch has no case
FrameLength(type) ==
    CASE type = GAMEPAD_STATE -> 14
      [] type = KEYBOARD_KEY -> 5
      [] type = MOUSE_MOVE -> 6
      [] type = MOUSE_BUTTON -> 3
      [] type = MOUSE_SCROLL -> 6
      [] OTHER -> 0

\* the frames offered, <<type, size, gamepad id, absolute flag, delta x,
\* delta y>>, with sizes around the lengths process_input tests for; a
\* field the type does not have is 0 or FALSE
InputFrames ==
    {<<type, size, 0, FALSE, 0, 0>> :
        type \in {GAMEPAD_RUMBLE, KEYBOARD_KEY, MOUSE_BUTTON, UNKNOWN_TYPE},
        size \in {0, 2, 3, 4, 5, 14}}
    \cup {<<GAMEPAD_STATE, size, b, FALSE, 0, 0>> :
             size \in {0, 13, 14}, b \in BrowserIds}
    \cup {<<MOUSE_MOVE, size, 0, a, 0, 0>> :
             size \in {0, 5, 6}, a \in BOOLEAN}
    \cup {<<MOUSE_SCROLL, size, 0, FALSE, dx, dy>> :
             size \in {0, 5, 6}, dx \in {0, 1}, dy \in {0, 1}}

\* a frame process_input returns from without calling a handler
DropInput(p) ==
    /\ input_call' = InputCall(p, "none")
    /\ UNCHANGED <<roomVars, sigFrameVars, claimed>>

\* InputHandler::process_input: b is the gamepad id of a gamepad frame,
\* is_absolute the flag of a mouse move, dx and dy the deltas of a scroll
ProcessInput(p, type, size, b, is_absolute, dx, dy) ==
    /\ p \in pm_peers_
    /\ IF size < 1 \/ FrameLength(type) = 0 \/ size < FrameLength(type)
       THEN DropInput(p)
       ELSE CASE type = GAMEPAD_STATE -> ProcessGamepad(p, b)
              [] type = KEYBOARD_KEY -> ProcessKeyboard(p)
              [] type = MOUSE_MOVE -> ProcessMouseMove(p, is_absolute)
              [] type = MOUSE_BUTTON -> ProcessMouseButton(p)
              [] type = MOUSE_SCROLL -> ProcessMouseScroll(p, dx, dy)

(* SpecFrames: input frames of every type, of the sizes around the ones    *)
(* process_input tests for, in the sessions the messages of the guests and *)
(* of the host lead to: every connection has joined; each guest has sent   *)
(* join_as_player or has not, and the host has sent set_guest_keyboard and *)
(* set_guest_mouse for it; or the host has left after that and the room is *)
(* closed.                                                                 *)

\* what each guest is in a session: a player or not, with the keyboard and
\* mouse flags the host's messages gave it
GuestSettings ==
    [Peers \ {1} -> [player : BOOLEAN, keyboard : BOOLEAN, mouse : BOOLEAN]]

\* the Room after the guests 2..n have sent join_as_player, where they do,
\* and the host has sent set_guest_keyboard and set_guest_mouse for each
RECURSIVE SettledRoom(_, _)
SettledRoom(g, n) ==
    IF n = 1 THEN JoinedRoom(NumPeers)
    ELSE LET r0 == SettledRoom(g, n - 1)
             r1 == IF g[n].player THEN promote_to_player(r0, n).room ELSE r0
             r2 == set_keyboard_access(
                       set_default_keyboard_access(r1, g[n].keyboard),
                       n, g[n].keyboard).room
         IN  set_mouse_access(set_default_mouse_access(r2, g[n].mouse),
                              n, g[n].mouse).room

InitFrames ==
    /\ \/ /\ \E g \in GuestSettings : room = <<SettledRoom(g, NumPeers)>>
          /\ last_call = [NoCall EXCEPT !.op = "set_mouse_access",
                                        !.peer = NumPeers, !.retb = TRUE]
          /\ rooms_ = {SINGLE_SESSION_CODE}
          /\ peer_to_room_ = Peers
          /\ ws_to_peer_ = Peers
          /\ pm_peers_ = Peers
          /\ capture = TRUE
          /\ reply = "room_updated"
       \/ /\ room = <<>>
          /\ last_call = [NoCall EXCEPT !.op = "remove_peer", !.peer = 1,
                                        !.retb = TRUE]
          /\ rooms_ = {}
          /\ peer_to_room_ = {}
          /\ ws_to_peer_ = Peers \ {1}
          /\ pm_peers_ = Peers \ {1}
          /\ capture = FALSE
          /\ reply = "left_room"
    /\ next_conn_id_ = NumPeers + 1
    /\ MediaInit
    /\ CloseInit
    /\ ExtraInit
    /\ InputInit

NextFrames ==
    \E p \in Peers, f \in InputFrames :
        ProcessInput(p, f[1], f[2], f[3], f[4], f[5], f[6])

SpecFrames == InitFrames /\ [][NextFrames]_vars

-----------------------------------------------------------------------------
(* on_close in its three steps (signaling.cpp 136-207).  The WebSocket     *)
(* server runs its handlers on one thread (ws_server.cpp 88, 150-154): no  *)
(* other handler runs between the steps of an on_close call.               *)

Notice(q, t, why) == [to |-> q, type |-> t, reason |-> why]

\* send_to_peer reaches the peers that have a connection
Reached(S) == S \cap ws_to_peer_

\* the messages on_close(p) sends to the others after Room::remove_peer
Notices(p) ==
    LET res == remove_peer(TheRoom, p)
    IN  IF res.ret
        THEN {Notice(q, "room_closed", "host_left") : q \in Reached(res.room.peers_)}
        ELSE IF p \in Members
        THEN {Notice(q, "player_left", "") : q \in Reached(res.room.peers_ \ {p})}
             \cup {Notice(q, "room_updated", "") : q \in Reached(res.room.peers_)}
        ELSE {}

\* an on_close that logs the first step without removing the peer
OnCloseRegistryKeepsPeer(p) ==
    /\ oc.pc = "idle"
    /\ p \in ws_to_peer_
    /\ oc' = [peer |-> p, pc |-> "room"]
    /\ cleanup' = <<"registry">>
    /\ sent' = {}
    /\ UNCHANGED <<roomVars, sigVars, mediaVars, closeVars,
                   inputVars, wsVars, restVars>>

\* on_ws_disconnect and on_close up to PeerManager::remove_peer
OnCloseRegistry(p) ==
    /\ oc.pc = "idle"
    /\ p \in ws_to_peer_
    /\ pm_peers_' = pm_peers_ \ {p}
    /\ oc' = [peer |-> p, pc |-> "room"]
    /\ cleanup' = <<"registry">>
    /\ sent' = {}
    /\ UNCHANGED <<roomVars, rooms_, peer_to_room_, next_conn_id_, ws_to_peer_,
                   capture, reply, mediaVars, closeVars, inputVars,
                   wsVars, restVars>>

\* on_close: the room cleanup
OnCloseRoom(p) ==
    /\ oc = [peer |-> p, pc |-> "room"]
    /\ IF find_room_by_peer(p)
       THEN LeaveRoom(p) /\ sent' = Notices(p)
       ELSE /\ sent' = {}
            /\ UNCHANGED <<roomVars, rooms_, peer_to_room_, pm_peers_, capture>>
    /\ oc' = [peer |-> p, pc |-> "mapping"]
    /\ cleanup' = Append(cleanup, "room")
    /\ UNCHANGED <<next_conn_id_, ws_to_peer_, reply, mediaVars, closeVars,
                   inputVars, wsVars, restVars>>

\* on_close: the connection maps
OnCloseMapping(p) ==
    /\ oc = [peer |-> p, pc |-> "mapping"]
    /\ ws_to_peer_' = ws_to_peer_ \ {p}
    /\ reply' = "none"
    /\ oc' = [peer |-> p, pc |-> "idle"]
    /\ cleanup' = Append(cleanup, "mapping")
    /\ UNCHANGED <<roomVars, rooms_, peer_to_room_, next_conn_id_, pm_peers_,
                   capture, sent, mediaVars, closeVars, inputVars,
                   wsVars, restVars>>

\* the handlers of the messages, run when no on_close is in progress
IoConnect == oc.pc = "idle" /\ OnWsConnect
IoJoin(p) == oc.pc = "idle" /\ HandleJoin(p)
IoJoinAsPlayer(p) == oc.pc = "idle" /\ HandleJoinAsPlayer(p)
IoLeaveRoom(p) == oc.pc = "idle" /\ HandleLeaveRoom(p)

NextDisconnect ==
    \/ IoConnect
    \/ \E p \in Peers :
        \/ IoJoin(p)
        \/ IoJoinAsPlayer(p)
        \/ IoLeaveRoom(p)
        \/ OnCloseRegistry(p)
        \/ OnCloseRoom(p)
        \/ OnCloseMapping(p)

SpecDisconnect == Init /\ [][NextDisconnect]_vars

-----------------------------------------------------------------------------
(* The WebSocket server (ws_server.cpp): sessions, their outstanding       *)
(* reads, and the connect and disconnect callbacks.  A handler of the io   *)
(* context runs only while the context runs; stop() stops it.              *)

wsOtherVars == <<roomVars, rooms_, peer_to_room_, ws_to_peer_, pm_peers_,
                 capture, reply, mediaVars, closeVars, inputVars, discVars,
                 restVars>>

\* Session::on_accept: register_session, on_connect, do_read
WsAccept ==
    /\ ws_running_
    /\ next_conn_id_ <= NumConns
    /\ next_conn_id_' = next_conn_id_ + 1
    /\ sessions_' = sessions_ \cup {next_conn_id_}
    /\ connect_calls' = [connect_calls EXCEPT ![next_conn_id_] = @ + 1]
    /\ session_read' = [session_read EXCEPT ![next_conn_id_] = "pending"]
    /\ UNCHANGED <<ws_running_, close_posted, disconnect_calls, wsOtherVars>>

\* Session::on_read with an error code (websocket::error::closed after a
\* remote close or after ws_.close(), or a read error): on_disconnect
WsReadEnds(c) ==
    /\ ws_running_
    /\ session_read[c] \in {"pending", "closed"}
    /\ sessions_' = sessions_ \ {c}
    /\ disconnect_calls' = [disconnect_calls EXCEPT ![c] = @ + 1]
    /\ session_read' = [session_read EXCEPT ![c] = "ended"]
    /\ UNCHANGED <<ws_running_, close_posted, connect_calls, next_conn_id_,
                   wsOtherVars>>

\* WebSocketServerImpl::close_connection: Session::close posts the close,
\* the session is erased
WsCloseConnection(c) ==
    /\ c \in sessions_
    /\ close_posted' = close_posted \cup {c}
    /\ sessions_' = sessions_ \ {c}
    /\ UNCHANGED <<ws_running_, session_read, connect_calls, disconnect_calls,
                   next_conn_id_, wsOtherVars>>

\* the handler Session::close posted: ws_.close()
WsRunClose(c) ==
    /\ ws_running_
    /\ c \in close_posted
    /\ close_posted' = close_posted \ {c}
    /\ session_read' = [session_read EXCEPT ![c] =
                           IF @ = "pending" THEN "closed" ELSE @]
    /\ UNCHANGED <<ws_running_, sessions_, connect_calls, disconnect_calls,
                   next_conn_id_, wsOtherVars>>

\* WebSocketServerImpl::stop: the sessions are cleared, the io context is
\* stopped and its thread joined
WsStop ==
    /\ ws_running_
    /\ ws_running_' = FALSE
    /\ sessions_' = {}
    /\ UNCHANGED <<session_read, close_posted, connect_calls, disconnect_calls,
                   next_conn_id_, wsOtherVars>>

NextWs ==
    \/ WsAccept
    \/ WsStop
    \/ \E c \in Conns :
        \/ WsReadEnds(c)
        \/ WsCloseConnection(c)
        \/ WsRunClose(c)

SpecWs == Init /\ [][NextWs]_vars

(* SpecWsSend: the end of a connection in its two steps, and send called    *)
(* by any thread in between and afterwards.  The io thread runs one handler *)
(* at a time.                                                               *)

sendOtherVars == <<roomVars, sigVars, mediaVars, closeVars, inputVars,
                   discVars, spawnVars, lockVars, stopVars>>

\* WebSocketServerImpl::send, lines 188-206: true iff the session is found
send(c) == c \in sessions_

\* a thread calls send(c)
WsSend(c) ==
    /\ last_send' = [conn |-> c, ret |-> send(c),
                     ended |-> session_read[c] = "ended"]
    /\ UNCHANGED <<wsVars, in_callback, sendOtherVars>>

WsDisconnectKeepsSession(c) ==
    /\ ws_running_
    /\ in_callback = 0
    /\ session_read[c] \in {"pending", "closed"}
    /\ session_read' = [session_read EXCEPT ![c] = "ended"]
    /\ in_callback' = c
    /\ UNCHANGED <<ws_running_, sessions_, close_posted, connect_calls,
                   disconnect_calls, last_send, sendOtherVars>>

\* Session::on_read with an error code, on_disconnect lines 270-274: the
\* session is erased
WsDisconnectErase(c) ==
    /\ ws_running_
    /\ in_callback = 0
    /\ session_read[c] \in {"pending", "closed"}
    /\ sessions_' = sessions_ \ {c}
    /\ session_read' = [session_read EXCEPT ![c] = "ended"]
    /\ in_callback' = c
    /\ UNCHANGED <<ws_running_, close_posted, connect_calls, disconnect_calls,
                   last_send, sendOtherVars>>

\* on_disconnect lines 275-277: the disconnect callback has run
WsDisconnectCallback(c) ==
    /\ in_callback = c
    /\ disconnect_calls' = [disconnect_calls EXCEPT ![c] = @ + 1]
    /\ in_callback' = 0
    /\ UNCHANGED <<ws_running_, sessions_, session_read, close_posted,
                   connect_calls, last_send, sendOtherVars>>

NextWsSend ==
    \/ in_callback = 0 /\ WsAccept
    \/ WsStop
    \/ \E c \in Conns :
        \/ WsDisconnectErase(c)
        \/ WsDisconnectCallback(c)
        \/ WsSend(c)
        \/ WsCloseConnection(c)
        \/ in_callback = 0 /\ WsRunClose(c)

SpecWsSend == Init /\ [][NextWsSend]_vars

-----------------------------------------------------------------------------
(* The SDP and ICE messages (signaling.cpp 756-785).  ok is the value      *)
(* Peer::set_remote_description or Peer::add_ice_candidate returns         *)
(* (peer.cpp 169-206): false when pc_ is null or the library throws.       *)

\* SignalingServer::handle_sdp: the value set_remote_description returns is
\* not looked at; the answer to an offer is sent by the local description
\* callback of the library, not by the handler
HandleSdp(p, type, ok) ==
    /\ p \in ws_to_peer_
    /\ reply' = IF p \notin pm_peers_ THEN "peer_not_found" ELSE "none"
    /\ UNCHANGED <<roomVars, rooms_, peer_to_room_, pm_peers_, capture,
                   next_conn_id_, ws_to_peer_, otherVars>>

\* SignalingServer::handle_ice: the value add_ice_candidate returns is not
\* looked at
HandleIce(p, ok) ==
    /\ p \in ws_to_peer_
    /\ reply' = IF p \notin pm_peers_ THEN "peer_not_found" ELSE "none"
    /\ UNCHANGED <<roomVars, rooms_, peer_to_room_, pm_peers_, capture,
                   next_conn_id_, ws_to_peer_, otherVars>>

NextSdp ==
    \/ OnWsConnect
    \/ \E p \in Peers :
        \/ OnClose(p)
        \/ HandleJoin(p)
        \/ HandleLeaveRoom(p)
        \/ \E ok \in BOOLEAN :
            \/ \E type \in {"offer", "answer"} : HandleSdp(p, type, ok)
            \/ HandleIce(p, ok)

SpecSdp == Init /\ [][NextSdp]_vars

-----------------------------------------------------------------------------
(* The mutexes of Peer, PeerManager and WebSocketServerImpl: which of them *)
(* a thread holds when it calls into the WebRTC library.  A thread is at   *)
(* "lock" (about to take the first mutex of its operation), "locked",      *)
(* "io" (inside a library call), or further along in Peer::close.          *)

Labels == {"input", "chat"}

LockOps == {"send_data", "send_binary", "on_data_channel", "create_peer",
            "remove_peer", "ws_send", "sender_loop"}

\* the mutex the thread is about to lock
Wanted(r) ==
    CASE r.at = "lock_track" -> "track_mutex_"
      [] r.at = "lock_channels" -> "channels_mutex_"
      [] r.op \in {"send_data", "send_binary", "on_data_channel"}
             -> "channels_mutex_"
      [] r.op \in {"create_peer", "remove_peer"} -> "mutex_"
      [] r.op = "ws_send" -> "sessions_mutex_"
      [] OTHER -> "queue_mutex_"

Free(mutex) == \A t \in LockThreads : mutex \notin lk[t].held

lockFrame == <<roomVars, videoVars, inputVars, discVars, wsVars, spawnVars,
              stopVars, sendVars>>
lockPeerFrame == <<sender_running_, packet_queue_, in_flight, track_open,
                   written, numbered, audio_sequence_number_, n_audio>>
lockSigFrame == <<rooms_, peer_to_room_, next_conn_id_, ws_to_peer_, capture,
                  reply>>
lockCloseFrame == <<close_pc, cb_pc, cb_new, lib_state, pc_closed,
                    sender_thread_, crashed, n_sends>>

\* a thread enters one of the operations
LkCall(t, op, p, label) ==
    /\ lk[t].op = "idle"
    /\ lk' = [lk EXCEPT ![t] = [NoOp EXCEPT !.op = op, !.peer = p,
                                            !.label = label, !.at = "lock"]]
    /\ UNCHANGED <<lockFrame, sigVars, peerVars, closeVars>>

\* std::lock_guard: the thread gets the mutex when no thread holds it
LkLock(t) ==
    /\ lk[t].at \in {"lock", "lock_track", "lock_channels"}
    /\ Free(Wanted(lk[t]))
    /\ lk' = [lk EXCEPT ![t].held = @ \cup {Wanted(lk[t])},
                        ![t].at = CASE lk[t].at = "lock" -> "locked"
                                    [] lk[t].at = "lock_track" -> "track"
                                    [] OTHER -> "channels"]
    /\ UNCHANGED <<lockFrame, sigVars, peerVars, closeVars>>

\* Peer::send_data / send_binary, lines 518-524, 537-543: the channel is
\* looked up and its send is called, the lock_guard still in scope
LkSendData(t, open) ==
    /\ lk[t].op \in {"send_data", "send_binary"}
    /\ lk[t].at = "locked"
    /\ lk' = [lk EXCEPT ![t] =
                 IF lk[t].label \in data_channels_ /\ open
                 THEN [@ EXCEPT !.at = "io", !.io = "channel_send"]
                 ELSE NoOp]
    /\ UNCHANGED <<lockFrame, sigVars, peerVars, closeVars>>

\* the library call of send_data, send_binary or sender_loop returns and the
\* operation ends, its lock_guard leaving scope
LkReturn(t) ==
    /\ lk[t].op \in {"send_data", "send_binary", "sender_loop"}
    /\ lk[t].at = "io"
    /\ lk' = [lk EXCEPT ![t] = NoOp]
    /\ UNCHANGED <<lockFrame, sigVars, peerVars, closeVars>>

\* handle_data_channel, lines 508-511, called by the library's onDataChannel
LkAddChannel(t) ==
    /\ lk[t].op = "on_data_channel"
    /\ lk[t].at = "locked"
    /\ data_channels_' = data_channels_ \cup {lk[t].label}
    /\ lk' = [lk EXCEPT ![t] = NoOp]
    /\ UNCHANGED <<lockFrame, sigVars, peerVars, lockCloseFrame, tracks_>>

\* PeerManager::create_peer, lines 723-732: an existing peer is returned,
\* else Peer::create makes the peer connection, mutex_ held
LkCreatePeer(t) ==
    /\ lk[t].op = "create_peer"
    /\ lk[t].at = "locked"
    /\ lk' = [lk EXCEPT ![t] =
                 IF lk[t].peer \in pm_peers_
                 THEN NoOp
                 ELSE [@ EXCEPT !.at = "io", !.io = "pc_create"]]
    /\ UNCHANGED <<lockFrame, sigVars, peerVars, closeVars>>

\* lines 732-735: the new peer, CONNECTING and without tracks or channels,
\* is put into peers_ and returned
LkCreatePeerInsert(t) ==
    /\ lk[t].op = "create_peer"
    /\ lk[t].at = "io"
    /\ pm_peers_' = pm_peers_ \cup {lk[t].peer}
    /\ state_' = [state_ EXCEPT ![lk[t].peer] = "CONNECTING"]
    /\ tracks_' = [tracks_ EXCEPT ![lk[t].peer] = {}]
    /\ data_channels_' = {}
    /\ lk' = [lk EXCEPT ![t] = NoOp]
    /\ UNCHANGED <<lockFrame, lockSigFrame, lockPeerFrame, lockCloseFrame>>

\* PeerManager::remove_peer, lines 755-763: the peer is taken out of peers_
\* and mutex_ released
LkRemovePeerErase(t) ==
    /\ lk[t].op = "remove_peer"
    /\ lk[t].at = "locked"
    /\ pm_peers_' = pm_peers_ \ {lk[t].peer}
    /\ lk' = [lk EXCEPT ![t] =
                 IF lk[t].peer \in pm_peers_
                 THEN [@ EXCEPT !.at = "close", !.held = {}]
                 ELSE NoOp]
    /\ UNCHANGED <<lockFrame, lockSigFrame, peerVars, closeVars>>

\* lines 767-768, Peer::close 554-572: a peer not closed yet is marked
\* DISCONNECTED and pc_->close() is called
LkCloseCas(t) ==
    /\ lk[t].op = "remove_peer"
    /\ lk[t].at = "close"
    /\ IF state_[lk[t].peer] \in {"CONNECTED", "CONNECTING"}
       THEN /\ state_' = [state_ EXCEPT ![lk[t].peer] = "DISCONNECTED"]
            /\ lk' = [lk EXCEPT ![t].at = "io", ![t].io = "pc_close"]
       ELSE /\ lk' = [lk EXCEPT ![t] = NoOp]
            /\ UNCHANGED state_
    /\ UNCHANGED <<lockFrame, sigVars, lockPeerFrame, closeVars>>

\* Peer::close, lines 572-580: pc_->close() returns
LkClosePc(t) ==
    /\ lk[t].op = "remove_peer"
    /\ lk[t].at = "io"
    /\ lk' = [lk EXCEPT ![t].at = "lock_track", ![t].io = "none"]
    /\ UNCHANGED <<lockFrame, sigVars, peerVars, closeVars>>

\* lines 580-584: the tracks are reset under track_mutex_
LkResetTracks(t) ==
    /\ lk[t].op = "remove_peer"
    /\ lk[t].at = "track"
    /\ tracks_' = [tracks_ EXCEPT ![lk[t].peer] = {}]
    /\ lk' = [lk EXCEPT ![t].at = "lock_channels", ![t].held = {}]
    /\ UNCHANGED <<lockFrame, sigVars, peerVars, lockCloseFrame,
                   data_channels_>>

\* lines 587-590: the data channels are cleared under channels_mutex_
LkClearChannels(t) ==
    /\ lk[t].op = "remove_peer"
    /\ lk[t].at = "channels"
    /\ data_channels_' = {}
    /\ lk' = [lk EXCEPT ![t] = NoOp]
    /\ UNCHANGED <<lockFrame, sigVars, peerVars, lockCloseFrame, tracks_>>

\* WebSocketServerImpl::send, lines 189-205: Session::send posts do_send to
\* the connection's executor (line 367)
LkWsSend(t) ==
    /\ lk[t].op = "ws_send"
    /\ lk[t].at = "locked"
    /\ lk' = [lk EXCEPT ![t] = NoOp]
    /\ UNCHANGED <<lockFrame, sigVars, peerVars, closeVars>>

\* Peer::sender_loop, lines 672-692: under queue_mutex_ a packet is popped
\* when the wait ends with one, and the mutex released
LkPop(t, has_packet) ==
    /\ lk[t].op = "sender_loop"
    /\ lk[t].at = "locked"
    /\ lk' = [lk EXCEPT ![t] =
                 IF has_packet
                 THEN [@ EXCEPT !.at = "lock_track", !.held = {}]
                 ELSE NoOp]
    /\ UNCHANGED <<lockFrame, sigVars, peerVars, closeVars>>

\* send_video_direct / send_audio_direct, lines 370-389, 413-423: the track
\* pointer is copied under track_mutex_, the mutex released, track->send
\* called
LkCopyTrack(t) ==
    /\ lk[t].op = "sender_loop"
    /\ lk[t].at = "track"
    /\ lk' = [lk EXCEPT ![t].at = "io", ![t].io = "track_send",
                        ![t].held = {}]
    /\ UNCHANGED <<lockFrame, sigVars, peerVars, closeVars>>

NextLocks ==
    \/ \E t \in LockThreads, op \in LockOps, p \in MediaPeers,
          label \in Labels : LkCall(t, op, p, label)
    \/ \E t \in LockThreads : LkLock(t)
    \/ \E t \in LockThreads, open \in BOOLEAN : LkSendData(t, open)
    \/ \E t \in LockThreads : LkReturn(t)
    \/ \E t \in LockThreads : LkAddChannel(t)
    \/ \E t \in LockThreads : LkCreatePeer(t)
    \/ \E t \in LockThreads : LkCreatePeerInsert(t)
    \/ \E t \in LockThreads : LkRemovePeerErase(t)
    \/ \E t \in LockThreads : LkCloseCas(t)
    \/ \E t \in LockThreads : LkClosePc(t)
    \/ \E t \in LockThreads : LkResetTracks(t)
    \/ \E t \in LockThreads : LkClearChannels(t)
    \/ \E t \in LockThreads : LkWsSend(t)
    \/ \E t \in LockThreads, has_packet \in BOOLEAN : LkPop(t, has_packet)
    \/ \E t \in LockThreads : LkCopyTrack(t)

SpecLocks == Init /\ [][NextLocks]_vars

-----------------------------------------------------------------------------
(* Start and shutdown of the module (webrtc.cpp 141-170) with the threads   *)
(* it starts and joins: the video sender, the audio sender, the transport's *)
(* io thread and the sender thread of the peer.  s_pc and a_pc are          *)
(* "stopped" (no thread, or the thread has left its loop), "test" (at the   *)
(* loop test) or "wait" (inside the pop).                                   *)

shutFrame == <<roomVars, sigVars, inputVars, discVars, spawnVars, lockVars,
               sendVars,
               v_pc, v_frame, v_last, emitted, sequence_number_, stats_,
               n_frames, packet_queue_, in_flight, track_open, written,
               numbered, audio_sequence_number_, n_audio, close_pc, cb_pc,
               cb_new, lib_state, crashed, n_sends, session_read,
               close_posted, connect_calls, disconnect_calls>>
shutPeerVars == <<state_, sender_running_, sender_thread_, pc_closed, tracks_,
                  data_channels_>>
shutWsVars == <<ws_running_, sessions_>>

\* pop of the encoder's queue: the call ends with a packet when one waits,
\* and without one only when it was given a timeout
PopEnds(has_packet, timed) == has_packet \/ timed

\* webrtc::start, lines 149-150: VideoSender::start and AudioSender::start
StartSenders ==
    /\ stop_pc = "start"
    /\ running_' = TRUE
    /\ s_pc' = "test"
    /\ audio_running_' = TRUE
    /\ a_pc' = "test"
    /\ stop_pc' = "started"
    /\ UNCHANGED <<shutFrame, shutPeerVars, shutWsVars, vq, aq>>

\* the encoder puts a packet into the video queue or into the audio queue
Encode(k) ==
    /\ IF k = "video"
       THEN ~vq /\ vq' = TRUE /\ UNCHANGED aq
       ELSE ~aq /\ aq' = TRUE /\ UNCHANGED vq
    /\ UNCHANGED <<shutFrame, shutPeerVars, shutWsVars, running_, stop_pc,
                   audio_running_, a_pc, s_pc>>

\* VideoSender::sender_loop, line 86: while (running_.load())
VideoTest ==
    /\ s_pc = "test"
    /\ s_pc' = IF running_ THEN "wait" ELSE "stopped"
    /\ UNCHANGED <<shutFrame, shutPeerVars, shutWsVars, running_, stop_pc,
                   audio_running_, a_pc, vq, aq>>

\* lines 88-107: packets->pop(), which waits for a packet without a timeout,
\* returns one; the packet is handled and the loop goes on
VideoPop ==
    /\ s_pc = "wait"
    /\ PopEnds(vq, FALSE)
    /\ vq' = FALSE
    /\ s_pc' = "test"
    /\ UNCHANGED <<shutFrame, shutPeerVars, shutWsVars, running_, stop_pc,
                   audio_running_, a_pc, aq>>

\* AudioSender::sender_loop, line 93: while (running_.load())
AudioTest ==
    /\ a_pc = "test"
    /\ a_pc' = IF audio_running_ THEN "wait" ELSE "stopped"
    /\ UNCHANGED <<shutFrame, shutPeerVars, shutWsVars, running_, stop_pc,
                   audio_running_, s_pc, vq, aq>>

\* lines 95-117: packets->pop(100 ms) returns a packet, or nothing after the
\* 100 ms; with nothing the loop ends when running_ is false
AudioPop ==
    /\ a_pc = "wait"
    /\ PopEnds(aq, TRUE)
    /\ aq' = FALSE
    /\ a_pc' = IF ~aq /\ ~audio_running_ THEN "stopped" ELSE "test"
    /\ UNCHANGED <<shutFrame, shutPeerVars, shutWsVars, running_, stop_pc,
                   audio_running_, s_pc, vq>>

\* onStateChange(Connected) of the peer, peer.cpp 81-88: CONNECTED is stored
\* and the sender thread started
ShutPeerConnected(p) ==
    /\ stop_pc # "start"
    /\ state_[p] = "CONNECTING"
    /\ ~pc_closed
    /\ state_' = [state_ EXCEPT ![p] = "CONNECTED"]
    /\ sender_running_' = [sender_running_ EXCEPT ![p] = TRUE]
    /\ sender_thread_' = "joinable"
    /\ UNCHANGED <<shutFrame, shutWsVars, stopVars, running_, pc_closed,
                   tracks_, data_channels_>>

\* webrtc::stop is called, lines 154-160
StopCalled ==
    /\ stop_pc = "started"
    /\ stop_pc' = "video"
    /\ UNCHANGED <<shutFrame, shutPeerVars, shutWsVars, running_,
                   audio_running_, a_pc, s_pc, vq, aq>>

\* line 162, VideoSender::stop lines 49-54: running_ is cleared
StopVideo ==
    /\ stop_pc = "video"
    /\ running_' = FALSE
    /\ stop_pc' = IF running_ THEN "video_join" ELSE "audio"
    /\ UNCHANGED <<shutFrame, shutPeerVars, shutWsVars, audio_running_, a_pc,
                   s_pc, vq, aq>>

\* VideoSender::stop lines 56-58: the join ends when the thread has left its
\* loop
StopVideoJoin ==
    /\ stop_pc = "video_join"
    /\ s_pc = "stopped"
    /\ stop_pc' = "audio"
    /\ UNCHANGED <<shutFrame, shutPeerVars, shutWsVars, running_,
                   audio_running_, a_pc, s_pc, vq, aq>>

\* line 163, AudioSender::stop lines 51-56
StopAudio ==
    /\ stop_pc = "audio"
    /\ audio_running_' = FALSE
    /\ stop_pc' = IF audio_running_ THEN "audio_join" ELSE "signaling"
    /\ UNCHANGED <<shutFrame, shutPeerVars, shutWsVars, running_, a_pc, s_pc,
                   vq, aq>>

\* AudioSender::stop lines 58-60
StopAudioJoin ==
    /\ stop_pc = "audio_join"
    /\ a_pc = "stopped"
    /\ stop_pc' = "signaling"
    /\ UNCHANGED <<shutFrame, shutPeerVars, shutWsVars, running_,
                   audio_running_, a_pc, s_pc, vq, aq>>

\* line 164, SignalingServer::stop (signaling.cpp 81-85):
\* WebSocketServerImpl::stop clears the sessions, stops the io context and
\* joins the io thread
StopSignaling ==
    /\ stop_pc = "signaling"
    /\ ws_running_' = FALSE
    /\ sessions_' = {}
    /\ stop_pc' = "peers"
    /\ UNCHANGED <<shutFrame, shutPeerVars, running_, audio_running_, a_pc,
                   s_pc, vq, aq>>

\* lines 167-169, Peer::close 554-567: the peer is marked DISCONNECTED and
\* stop_sender clears sender_running_
StopPeer(p) ==
    /\ stop_pc = "peers"
    /\ IF state_[p] \in {"CONNECTED", "CONNECTING"}
       THEN /\ state_' = [state_ EXCEPT ![p] = "DISCONNECTED"]
            /\ sender_running_' = [sender_running_ EXCEPT ![p] = FALSE]
            /\ stop_pc' = "peer_join"
       ELSE /\ stop_pc' = "done"
            /\ UNCHANGED <<state_, sender_running_>>
    /\ UNCHANGED <<shutFrame, shutWsVars, running_, audio_running_, a_pc,
                   s_pc, vq, aq, sender_thread_, pc_closed, tracks_,
                   data_channels_>>

\* Peer::close 567-590: the sender thread, which has seen the flag within
\* 50 ms, is joined; the connection is closed, tracks and channels cleared
StopPeerJoin(p) ==
    /\ stop_pc = "peer_join"
    /\ sender_thread_' = "none"
    /\ pc_closed' = TRUE
    /\ tracks_' = [tracks_ EXCEPT ![p] = {}]
    /\ data_channels_' = {}
    /\ stop_pc' = "done"
    /\ UNCHANGED <<shutFrame, shutWsVars, running_, audio_running_, a_pc,
                   s_pc, vq, aq, state_, sender_running_>>

StopSteps ==
    \/ StopCalled
    \/ StopVideo
    \/ StopVideoJoin
    \/ StopAudio
    \/ StopAudioJoin
    \/ StopSignaling
    \/ \E p \in MediaPeers : StopPeer(p)
    \/ \E p \in MediaPeers : StopPeerJoin(p)

VideoThread == VideoTest \/ VideoPop
AudioThread == AudioTest \/ AudioPop

NextShutdown ==
    \/ StartSenders
    \/ \E k \in Kinds : Encode(k)
    \/ VideoTest
    \/ VideoPop
    \/ AudioTest
    \/ AudioPop
    \/ \E p \in MediaPeers : ShutPeerConnected(p)
    \/ StopCalled
    \/ StopVideo
    \/ StopVideoJoin
    \/ StopAudio
    \/ StopAudioJoin
    \/ StopSignaling
    \/ \E p \in MediaPeers : StopPeer(p)
    \/ \E p \in MediaPeers : StopPeerJoin(p)

SpecShutdown == Init /\ [][NextShutdown]_vars

\* Every thread that can take a step takes one: the senders' threads and the
\* thread in webrtc::stop.  Nothing makes the encoder produce a packet.
SpecShutdownFair ==
    /\ Init
    /\ [][NextShutdown]_vars
    /\ WF_vars(StartSenders)
    /\ WF_vars(VideoThread)
    /\ WF_vars(AudioThread)
    /\ WF_vars(StopSteps)

-----------------------------------------------------------------------------
(* The H.264 packetizer (video_sender.cpp 148-270).  A frame is the        *)
(* sequence of its bytes; offsets count from 0 as in the code.  A packet   *)
(* is [marker, seq, payload], the payload being the bytes after the        *)
(* 12-byte RTP header; fu, nal_start and nal_end remember the branch that  *)
(* built the packet and the NAL unit it was cut from.                      *)

At(data, i) == data[i + 1]

\* nal_header & 0x1F, nal_header & 0x60
NalType(b) == b % 32
NalRefIdc(b) == ((b \div 32) % 4) * 32

\* the test of the scan loop at position i (line 172)
IsStartCode(data, i) ==
    /\ At(data, i) = 0
    /\ At(data, i + 1) = 0
    /\ \/ At(data, i + 2) = 1
       \/ At(data, i + 2) = 0 /\ At(data, i + 3) = 1

\* lines 157-168: skip the start code at offset
NalStart(data, offset) ==
    IF offset + 4 <= Len(data) /\ At(data, offset) = 0 /\ At(data, offset + 1) = 0
    THEN IF At(data, offset + 2) = 1 THEN offset + 3
         ELSE IF At(data, offset + 2) = 0 /\ At(data, offset + 3) = 1
              THEN offset + 4
              ELSE offset
    ELSE offset

\* lines 158, 171-176: the first start code at or after nal_start, looked
\* for at i < size - 3, or the end of the frame (for size >= 3)
NalEnd(data, nal_start) ==
    LET found == {i \in nal_start..(Len(data) - 4) : IsStartCode(data, i)}
    IN  IF found = {} THEN Len(data) ELSE Min(found)

SingleNalAlwaysMarker(data, nal_start, nal_end) ==
    [marker |-> TRUE, seq |-> 0,
     payload |-> SubSeq(data, nal_start + 1, nal_end),
     fu |-> FALSE, nal_start |-> nal_start, nal_end |-> nal_end]

\* lines 180-211: a single NAL unit packet
SingleNal(data, nal_start, nal_end) ==
    [marker |-> nal_end >= Len(data), seq |-> 0,
     payload |-> SubSeq(data, nal_start + 1, nal_end),
     fu |-> FALSE, nal_start |-> nal_start, nal_end |-> nal_end]

FragmentEndOnMarker(data, nal_start, nal_end, frag_offset, frag_size) ==
    LET nal_header == At(data, nal_start)
        nal_size == nal_end - nal_start
        last == frag_offset + frag_size >= nal_size /\ nal_end >= Len(data)
    IN  [marker |-> last, seq |-> 0,
         payload |-> <<NalRefIdc(nal_header) + FU_A,
                       NalType(nal_header)
                         + (IF frag_offset = 1 THEN 128 ELSE 0)
                         + (IF last THEN 64 ELSE 0)>>
                     \o SubSeq(data, nal_start + frag_offset + 1,
                               nal_start + frag_offset + frag_size),
         fu |-> TRUE, nal_start |-> nal_start, nal_end |-> nal_end]

\* lines 223-259: one FU-A fragment (first is frag_offset = 1)
Fragment(data, nal_start, nal_end, frag_offset, frag_size) ==
    LET nal_header == At(data, nal_start)
        nal_size == nal_end - nal_start
        last == frag_offset + frag_size >= nal_size
    IN  [marker |-> last /\ nal_end >= Len(data), seq |-> 0,
         payload |-> <<NalRefIdc(nal_header) + FU_A,
                       NalType(nal_header)
                         + (IF frag_offset = 1 THEN 128 ELSE 0)
                         + (IF last THEN 64 ELSE 0)>>
                     \o SubSeq(data, nal_start + frag_offset + 1,
                               nal_start + frag_offset + frag_size),
         fu |-> TRUE, nal_start |-> nal_start, nal_end |-> nal_end]

\* lines 219-265: the fragmentation loop
RECURSIVE Fragments(_, _, _, _)
Fragments(data, nal_start, nal_end, frag_offset) ==
    LET nal_size == nal_end - nal_start
        rest == nal_size - frag_offset
        frag_size == IF rest < MAX_RTP_PAYLOAD - 2 THEN rest
                     ELSE MAX_RTP_PAYLOAD - 2
    IN  IF frag_offset >= nal_size THEN <<>>
        ELSE <<Fragment(data, nal_start, nal_end, frag_offset, frag_size)>>
             \o Fragments(data, nal_start, nal_end, frag_offset + frag_size)

\* lines 155-269: the loop over the NAL units from offset on (size >= 3)
RECURSIVE NalUnitsFrom(_, _)
NalUnitsFrom(data, offset) ==
    IF offset >= Len(data) THEN <<>>
    ELSE LET nal_start == NalStart(data, offset)
             nal_end == NalEnd(data, nal_start)
         IN  (IF nal_end - nal_start <= MAX_RTP_PAYLOAD
              THEN <<SingleNal(data, nal_start, nal_end)>>
              ELSE Fragments(data, nal_start, nal_end, 1))
             \o NalUnitsFrom(data, nal_end)

StampWithoutWrap(pkts, seq0) ==
    [k \in 1..Len(pkts) |-> [pkts[k] EXCEPT !.seq = seq0 + k - 1]]

\* lines 192-194, 235-237: the sequence numbers, counted in uint16_t
Stamp(pkts, seq0) ==
    [k \in 1..Len(pkts) |-> [pkts[k] EXCEPT !.seq = (seq0 + k - 1) % UINT16]]

\* VideoSender::packetize_h264
packetize_h264(data, seq0) == Stamp(NalUnitsFrom(data, 0), seq0)

-----------------------------------------------------------------------------
(* Peer and PeerManager (peer.cpp): the per-peer send queue, its sender    *)
(* thread and the broadcast.  A queued packet is [is_video, seq, ord]: the *)
(* flag of MediaPacket, the sequence number in the packet's RTP header and *)
(* the packet's place among the packets its sender numbered.               *)

KindOf(pkt) == IF pkt.is_video THEN "video" ELSE "audio"

\* PeerManager::connected_count
connected_count == Cardinality({p \in MediaPeers : state_[p] = "CONNECTED"})

DropNewestQueued(q) ==
    IF Len(q) >= MAX_QUEUE_SIZE THEN SubSeq(q, 1, MAX_QUEUE_SIZE - 1) ELSE q

\* peer.cpp 325-327, 352-354: drop the oldest packets while the queue is full
RECURSIVE DropOldest(_)
DropOldest(q) == IF Len(q) >= MAX_QUEUE_SIZE THEN DropOldest(Tail(q)) ELSE q

RECURSIVE SendAllToConnected(_, _, _, _)
SendAllToConnected(st, run, q, pkts) ==
    IF pkts = <<>> THEN q
    ELSE IF st # "CONNECTED"
    THEN SendAllToConnected(st, run, q, Tail(pkts))
    ELSE SendAllToConnected(st, run, Append(DropOldest(q), Head(pkts)), Tail(pkts))

\* PeerManager::broadcast_video / broadcast_audio for one peer, packet after
\* packet: Peer::send_video / send_audio, which return false unless the peer
\* is CONNECTED and its sender runs
RECURSIVE SendAll(_, _, _, _)
SendAll(st, run, q, pkts) ==
    IF pkts = <<>> THEN q
    ELSE IF st # "CONNECTED" \/ ~run
    THEN SendAll(st, run, q, Tail(pkts))
    ELSE SendAll(st, run, Append(DropOldest(q), Head(pkts)), Tail(pkts))

\* the packets of track k numbered from seqs, in the order of their numbers
Numbered(k, seqs) ==
    [i \in 1..Len(seqs) |->
        [is_video |-> k = "video", seq |-> seqs[i], ord |-> numbered[k] + i - 1]]

Broadcast(k, seqs) ==
    /\ packet_queue_' =
           [p \in MediaPeers |->
               SendAll(state_[p], sender_running_[p], packet_queue_[p],
                       Numbered(k, seqs))]
    /\ numbered' = [numbered EXCEPT ![k] = @ + Len(seqs)]

\* Peer::send_video_direct / send_audio_direct: the packet is written when the
\* track is there and open, dropped when it is not
SendDirect(p, pkt, w) ==
    LET k == KindOf(pkt)
    IN  IF k \in tracks_[p] /\ k \in track_open[p]
        THEN [w EXCEPT ![k] = [prev |-> w[k].cur, cur |-> pkt.seq,
                               ord |-> pkt.ord, gap |-> pkt.ord - w[k].ord - 1]]
        ELSE w

\* Peer::sender_loop, lines 674-692: take the packet at the front
SenderDequeue(p) ==
    /\ sender_running_[p]
    /\ in_flight[p] = <<>>
    /\ packet_queue_[p] # <<>>
    /\ in_flight' = [in_flight EXCEPT ![p] = <<Head(packet_queue_[p])>>]
    /\ packet_queue_' = [packet_queue_ EXCEPT ![p] = Tail(@)]
    /\ UNCHANGED <<state_, sender_running_, track_open, written, numbered,
                   audio_sequence_number_, n_audio>>
    /\ UNCHANGED <<roomVars, sigVars, extVars, videoVars>>

\* Peer::sender_loop, lines 695-703: send it outside of the lock
SenderSend(p) ==
    /\ in_flight[p] # <<>>
    /\ written' = [written EXCEPT ![p] = SendDirect(p, in_flight[p][1], @)]
    /\ in_flight' = [in_flight EXCEPT ![p] = <<>>]
    /\ UNCHANGED <<state_, sender_running_, packet_queue_, track_open, numbered,
                   audio_sequence_number_, n_audio>>
    /\ UNCHANGED <<roomVars, sigVars, extVars, videoVars>>

\* The onStateChange callback (peer.cpp 53-95): store the state, start_sender
\* on CONNECTED, stop_sender on DISCONNECTED and FAILED.  stop_sender joins
\* the sender thread, which finishes the send it is in, and clears the queue.
OnStateChange(p, new_state) ==
    /\ state_' = [state_ EXCEPT ![p] = new_state]
    /\ IF new_state = "CONNECTED"
       THEN /\ sender_running_' = [sender_running_ EXCEPT ![p] = TRUE]
            /\ UNCHANGED <<packet_queue_, in_flight, written>>
       ELSE IF new_state \in {"DISCONNECTED", "FAILED"} /\ sender_running_[p]
       THEN /\ sender_running_' = [sender_running_ EXCEPT ![p] = FALSE]
            /\ in_flight' = [in_flight EXCEPT ![p] = <<>>]
            /\ packet_queue_' = [packet_queue_ EXCEPT ![p] = <<>>]
            /\ written' = [written EXCEPT ![p] =
                              IF in_flight[p] = <<>> THEN @
                              ELSE SendDirect(p, in_flight[p][1], @)]
       ELSE UNCHANGED <<sender_running_, packet_queue_, in_flight, written>>
    /\ UNCHANGED <<track_open, numbered, audio_sequence_number_, n_audio>>
    /\ UNCHANGED <<roomVars, sigVars, extVars, videoVars>>

\* The library opens and closes a track of the peer (rtc::Track::isOpen).
OnTrackOpen(p, k) ==
    /\ k \notin track_open[p]
    /\ track_open' = [track_open EXCEPT ![p] = @ \cup {k}]
    /\ UNCHANGED <<state_, sender_running_, packet_queue_, in_flight, written,
                   numbered, audio_sequence_number_, n_audio>>
    /\ UNCHANGED <<roomVars, sigVars, extVars, videoVars>>

OnTrackClosed(p, k) ==
    /\ k \in track_open[p]
    /\ track_open' = [track_open EXCEPT ![p] = @ \ {k}]
    /\ UNCHANGED <<state_, sender_running_, packet_queue_, in_flight, written,
                   numbered, audio_sequence_number_, n_audio>>
    /\ UNCHANGED <<roomVars, sigVars, extVars, videoVars>>

\* One round of AudioSender::sender_loop with a packet popped (the audio
\* sender started): discard it when no peer is CONNECTED, else number it
\* (send_rtp_packet) and broadcast it.
AudioSend ==
    /\ n_frames + n_audio < MaxMedia
    /\ n_audio' = n_audio + 1
    /\ IF connected_count = 0
       THEN UNCHANGED <<audio_sequence_number_, packet_queue_, numbered>>
       ELSE /\ audio_sequence_number_' = (audio_sequence_number_ + 1) % UINT16
            /\ Broadcast("audio", <<audio_sequence_number_>>)
    /\ UNCHANGED <<state_, sender_running_, in_flight, track_open, written>>
    /\ UNCHANGED <<roomVars, sigVars, extVars, videoVars>>

-----------------------------------------------------------------------------
(* The video sender thread (video_sender.cpp 36-146).  v_pc is "stopped"   *)
(* (no thread), "pop" (at the loop test and packets->pop()), "check" (a    *)
(* frame popped, before the connected_count() test) or "process" (before   *)
(* process_packet).                                                        *)

\* VideoSender::start
VideoStart ==
    /\ ~running_
    /\ v_pc = "stopped"
    /\ running_' = TRUE
    /\ v_pc' = "pop"
    /\ UNCHANGED <<v_frame, v_last, emitted, sequence_number_, stats_, n_frames>>
    /\ UNCHANGED <<roomVars, sigVars, extVars, peerVars>>

\* VideoSender::stop, up to the join; the join ends when the thread has left
\* its loop (LoopExit)
VideoStop ==
    /\ running_
    /\ running_' = FALSE
    /\ UNCHANGED <<v_pc, v_frame, v_last, emitted, sequence_number_, stats_,
                   n_frames>>
    /\ UNCHANGED <<roomVars, sigVars, extVars, peerVars>>

\* sender_loop, lines 88-98: running_ is false
LoopExit ==
    /\ v_pc = "pop"
    /\ ~running_
    /\ v_pc' = "stopped"
    /\ UNCHANGED <<running_, v_frame, v_last, emitted, sequence_number_, stats_,
                   n_frames>>
    /\ UNCHANGED <<roomVars, sigVars, extVars, peerVars>>

\* sender_loop, lines 88-90: pop the frame f (at most limit frames a run);
\* v_last and emitted are from now on about f
PopFrame(f, limit) ==
    /\ v_pc = "pop"
    /\ running_
    /\ n_frames + n_audio < limit
    /\ n_frames' = n_frames + 1
    /\ v_frame' = f
    /\ v_last' = "popped"
    /\ emitted' = <<>>
    /\ v_pc' = "check"
    /\ UNCHANGED <<running_, sequence_number_, stats_>>
    /\ UNCHANGED <<roomVars, sigVars, extVars, peerVars>>

\* sender_loop, lines 100-103: the frame is discarded when no peer is CONNECTED
CheckConnected ==
    /\ v_pc = "check"
    /\ IF connected_count = 0
       THEN /\ v_last' = "discarded"
            /\ emitted' = <<>>
            /\ v_pc' = "pop"
       ELSE /\ v_pc' = "process"
            /\ UNCHANGED <<v_last, emitted>>
    /\ UNCHANGED <<running_, v_frame, sequence_number_, stats_, n_frames>>
    /\ UNCHANGED <<roomVars, sigVars, extVars, peerVars>>

\* A frame of one or two bytes makes size - 3 wrap around in size_t (line
\* 171) and the scan read behind the frame: the NAL unit found, if any, ends
\* behind the frame, so that its packets carry bytes that are not the
\* frame's; the thread may also never come back.
UndefinedOutcomes(data) ==
    {<<>>} \cup
    {<<[marker |-> TRUE, seq |-> 0, payload |-> data \o tail,
        fu |-> FALSE, nal_start |-> 0, nal_end |-> Len(data \o tail)]>> :
        tail \in {<<0>>, <<255, 0>>}}

\* VideoSender::process_packet with the H.264 codec
ProcessPacket ==
    /\ v_pc = "process"
    /\ v_pc' = "pop"
    /\ IF ~running_
       THEN /\ v_last' = "skipped"
            /\ emitted' = <<>>
            /\ UNCHANGED <<sequence_number_, stats_, packet_queue_, numbered>>
       ELSE /\ \E pkts \in (IF Len(v_frame) \in {1, 2}
                            THEN UndefinedOutcomes(v_frame)
                            ELSE {NalUnitsFrom(v_frame, 0)}) :
                 /\ emitted' = Stamp(pkts, sequence_number_)
                 /\ sequence_number_' = (sequence_number_ + Len(pkts)) % UINT16
                 /\ Broadcast("video",
                        [k \in 1..Len(pkts) |->
                            Stamp(pkts, sequence_number_)[k].seq])
            /\ v_last' = IF Len(v_frame) \in {1, 2} THEN "undefined" ELSE "sent"
            /\ stats_' = [stats_ EXCEPT !.frames_sent = @ + 1]
    /\ UNCHANGED <<running_, v_frame, n_frames>>
    /\ UNCHANGED <<state_, sender_running_, in_flight, track_open, written,
                   audio_sequence_number_, n_audio>>
    /\ UNCHANGED <<roomVars, sigVars, extVars>>

\* the states the callback is given here: the senders read of a peer's state
\* only whether it is CONNECTED
ConnectedOrNot == {"CONNECTED", "DISCONNECTED"}

(* The frames of SpecVideo: every string of at most MaxTokens tokens, a    *)
(* token being a start code or one byte, and frames of one or two NAL      *)
(* units with sizes around MAX_RTP_PAYLOAD and around two fragments.       *)
Tokens == {<<0, 0, 1>>, <<0, 0, 0, 1>>, <<101>>, <<0>>}

RECURSIVE TokenFrames(_)
TokenFrames(n) ==
    IF n = 0 THEN {<<>>}
    ELSE LET shorter == TokenFrames(n - 1)
         IN  shorter \cup {f \o t : f \in shorter, t \in Tokens}

\* a NAL unit of n bytes: the header, then bytes that hold no start code
Nal(header, n) == <<header>> \o [i \in 1..(n - 1) |-> 171]

NalSizes == {MAX_RTP_PAYLOAD - 1, MAX_RTP_PAYLOAD, MAX_RTP_PAYLOAD + 1,
             2 * (MAX_RTP_PAYLOAD - 2) + 1, 2 * (MAX_RTP_PAYLOAD - 2) + 2}

\* headers 0x65 and 0xE5 (the same with the F bit set)
Headers == {101, 229}

BigFrames ==
    {sc \o Nal(h, n) \o tail :
        sc \in {<<0, 0, 0, 1>>}, h \in Headers, n \in NalSizes,
        tail \in {<<>>} \cup {<<0, 0, 1>> \o Nal(65, t) :
                     t \in {1, MAX_RTP_PAYLOAD + 1}}}

Frames == TokenFrames(MaxTokens) \cup BigFrames

InitVideo ==
    /\ room = <<>>
    /\ last_call = NoCall
    /\ SigInit
    /\ \E seq \in {0, UINT16 - 2} : VideoInit(seq)
    /\ PeerInit(0)
    /\ CloseInit
    /\ ExtraInit
    /\ InputInit

NextVideo ==
    \/ VideoStart
    \/ VideoStop
    \/ LoopExit
    \/ \E f \in Frames : PopFrame(f, MaxFrames)
    \/ CheckConnected
    \/ ProcessPacket
    \/ \E p \in MediaPeers, st \in ConnectedOrNot : OnStateChange(p, st)

SpecVideo == InitVideo /\ [][NextVideo]_vars

(* SpecMedia: the way of the packets from the senders through a peer's    *)
(* queue to its tracks.  The video sender is not stopped once started; its *)
(* frames have one NAL unit or three, that is one packet or more than the  *)
(* queue holds.  Both senders are one packet short of the wrap of their    *)
(* sequence numbers.                                                       *)
MediaFrames == {<<0, 0, 1, 101>>,
                <<0, 0, 1, 101, 0, 0, 1, 65, 0, 0, 1, 65>>}

InitMedia ==
    /\ room = <<>>
    /\ last_call = NoCall
    /\ SigInit
    /\ VideoInit(UINT16 - 1)
    /\ PeerInit(UINT16 - 1)
    /\ CloseInit
    /\ ExtraInit
    /\ InputInit

NextMedia ==
    \/ VideoStart
    \/ \E f \in MediaFrames : PopFrame(f, MaxMedia)
    \/ CheckConnected
    \/ ProcessPacket
    \/ AudioSend
    \/ \E p \in MediaPeers :
        \/ SenderDequeue(p)
        \/ SenderSend(p)
        \/ \E st \in ConnectedOrNot : OnStateChange(p, st)
        \/ \E k \in Kinds : OnTrackOpen(p, k) \/ OnTrackClosed(p, k)

SpecMedia == InitMedia /\ [][NextMedia]_vars

-----------------------------------------------------------------------------
(* SpecPlayers: join_as_player, leave_room and join in a session that       *)
(* NumRoomPeers connections have joined: peer 1 first, which made it the   *)
(* host, the others after it as spectators.  The host stays (Spec has the  *)
(* host leaving).                                                          *)

\* the Room after peers 1..n have sent join
InitPlayers ==
    /\ room = <<JoinedRoom(NumRoomPeers)>>
    /\ last_call = [NoCall EXCEPT !.op = "add_spectator", !.peer = NumRoomPeers,
                                  !.retb = TRUE]
    /\ rooms_ = {SINGLE_SESSION_CODE}
    /\ peer_to_room_ = RoomPeers
    /\ next_conn_id_ = NumRoomPeers + 1
    /\ ws_to_peer_ = RoomPeers
    /\ pm_peers_ = RoomPeers
    /\ capture = TRUE
    /\ reply = "room_joined"
    /\ MediaInit
    /\ CloseInit
    /\ ExtraInit
    /\ InputInit

NextPlayers ==
    \/ \E p \in RoomPeers : HandleJoinAsPlayer(p)
    \/ \E p \in RoomPeers \ {1} : HandleLeaveRoom(p)
    \/ \E p \in RoomPeers \ {1} : HandleJoin(p)

SpecPlayers == InitPlayers /\ [][NextPlayers]_vars

-----------------------------------------------------------------------------
(* SpecClose: the life of one peer (peer.cpp 46-95, 552-664).  Peer::close  *)
(* is called by several threads, the library's thread runs onStateChange,  *)
(* the senders offer packets and the peer's sender thread sends them; each  *)
(* action is one step between two accesses to shared state.                *)

\* bound: packets offered to the peer in a run
MaxSends == 2

Terminal == {"DISCONNECTED", "FAILED"}

\* the switch of onStateChange, lines 61-79
PeerStateOf(lib) ==
    CASE lib \in {"New", "Connecting"} -> "CONNECTING"
      [] lib = "Connected" -> "CONNECTED"
      [] lib = "Disconnected" -> "DISCONNECTED"
      [] lib \in {"Failed", "Closed"} -> "FAILED"

\* The states the library reports next: a connection that lost connectivity
\* is Disconnected and may come back; once pc_->close() was called the
\* library reports Closed and nothing more.
LibNext(lib, closed) ==
    IF closed THEN (IF lib = "Closed" THEN {} ELSE {"Closed"})
    ELSE CASE lib = "New" -> {"Connecting"}
           [] lib = "Connecting" -> {"Connected", "Failed"}
           [] lib = "Connected" -> {"Disconnected", "Failed"}
           [] lib = "Disconnected" -> {"Connected", "Failed"}
           [] OTHER -> {}

\* the library calls onStateChange (lines 53-79): new_state is computed
LibStateChange(new) ==
    /\ ~crashed
    /\ cb_pc = "idle"
    /\ new \in LibNext(lib_state, pc_closed)
    /\ lib_state' = new
    /\ cb_new' = PeerStateOf(new)
    /\ cb_pc' = "store"
    /\ UNCHANGED <<close_pc, pc_closed, tracks_, data_channels_, sender_thread_,
                   crashed, n_sends>>
    /\ UNCHANGED <<roomVars, sigVars, auxVars, mediaVars>>

\* line 81: self->state_.store(new_state)
CbStore(p) ==
    /\ ~crashed
    /\ cb_pc = "store"
    /\ state_' = [state_ EXCEPT ![p] = cb_new]
    /\ cb_pc' = "sender"
    /\ UNCHANGED <<sender_running_, packet_queue_, in_flight, track_open,
                   written, numbered, audio_sequence_number_, n_audio>>
    /\ UNCHANGED <<close_pc, cb_new, lib_state, pc_closed, tracks_,
                   data_channels_, sender_thread_, crashed, n_sends>>
    /\ UNCHANGED <<roomVars, sigVars, auxVars, videoVars>>

\* lines 86-91: the compare-and-swap of start_sender (627-632) on
\* CONNECTED, the compare-and-swap of stop_sender (640-645) on DISCONNECTED
\* and FAILED.
CbSender(p) ==
    /\ ~crashed
    /\ cb_pc = "sender"
    /\ IF cb_new = "CONNECTED" /\ ~sender_running_[p]
       THEN /\ sender_running_' = [sender_running_ EXCEPT ![p] = TRUE]
            /\ cb_pc' = "thread"
            /\ UNCHANGED <<sender_thread_, crashed>>
       ELSE IF cb_new \in Terminal /\ sender_running_[p]
       THEN /\ sender_running_' = [sender_running_ EXCEPT ![p] = FALSE]
            /\ cb_pc' = "join"
            /\ UNCHANGED <<sender_thread_, crashed>>
       ELSE /\ cb_pc' = "idle"
            /\ UNCHANGED <<sender_running_, sender_thread_, crashed>>
    /\ UNCHANGED <<state_, packet_queue_, in_flight, track_open, written,
                   numbered, audio_sequence_number_, n_audio>>
    /\ UNCHANGED <<close_pc, cb_new, lib_state, pc_closed, tracks_,
                   data_channels_, n_sends>>
    /\ UNCHANGED <<roomVars, sigVars, auxVars, videoVars>>

\* start_sender, line 636, right-hand side: std::thread(&Peer::sender_loop,
\* this) starts a thread that runs sender_loop
CbThread(p) ==
    /\ ~crashed
    /\ cb_pc = "thread"
    /\ spawned' = TRUE
    /\ cb_pc' = "assign"
    /\ UNCHANGED <<close_pc, cb_new, lib_state, pc_closed, tracks_,
                   data_channels_, sender_thread_, crashed, n_sends>>
    /\ UNCHANGED <<roomVars, sigVars, inputVars, discVars, wsVars,
                   spawn_flight, lateVars, mediaVars>>

\* start_sender, line 636, the assignment: the started thread becomes
\* sender_thread_.  Assigning to a sender_thread_ that is still joinable
\* calls std::terminate.
CbAssign(p) ==
    /\ ~crashed
    /\ cb_pc = "assign"
    /\ sender_thread_' = "joinable"
    /\ crashed' = (sender_thread_ = "joinable")
    /\ cb_pc' = "idle"
    /\ spawned' = FALSE
    /\ IF sender_thread_ = "joinable"
       THEN UNCHANGED <<in_flight, spawn_flight>>
       ELSE /\ in_flight' = [in_flight EXCEPT ![p] = spawn_flight]
            /\ spawn_flight' = <<>>
    /\ UNCHANGED <<state_, sender_running_, packet_queue_, track_open,
                   written, numbered, audio_sequence_number_, n_audio>>
    /\ UNCHANGED <<close_pc, cb_new, lib_state, pc_closed, tracks_,
                   data_channels_, n_sends>>
    /\ UNCHANGED <<roomVars, sigVars, inputVars, discVars, wsVars, lateVars,
                   videoVars>>

\* Peer::sender_loop run by the thread start_sender has started and not yet
\* assigned, lines 674-692: take the packet at the front
SpawnedDequeue(p) ==
    /\ sender_running_[p]
    /\ spawn_flight = <<>>
    /\ packet_queue_[p] # <<>>
    /\ spawn_flight' = <<Head(packet_queue_[p])>>
    /\ packet_queue_' = [packet_queue_ EXCEPT ![p] = Tail(@)]
    /\ UNCHANGED <<state_, sender_running_, in_flight, track_open, written,
                   numbered, audio_sequence_number_, n_audio>>
    /\ UNCHANGED <<roomVars, sigVars, closeVars, inputVars, discVars, wsVars,
                   spawned, lateVars, videoVars>>

\* lines 695-703 run by that thread: send it outside of the lock
SpawnedSend(p) ==
    /\ spawn_flight # <<>>
    /\ written' = [written EXCEPT ![p] = SendDirect(p, spawn_flight[1], @)]
    /\ spawn_flight' = <<>>
    /\ UNCHANGED <<state_, sender_running_, packet_queue_, in_flight,
                   track_open, numbered, audio_sequence_number_, n_audio>>
    /\ UNCHANGED <<roomVars, sigVars, closeVars, inputVars, discVars, wsVars,
                   spawned, lateVars, videoVars>>

\* stop_sender, lines 650-661: a joinable sender thread is joined, the join
\* ending when the thread has left its loop; then the queue is cleared
JoinAndClear(p) ==
    /\ IF sender_thread_ = "joinable"
       THEN /\ in_flight[p] = <<>>
            /\ ~sender_running_[p]
            /\ sender_thread_' = "none"
       ELSE UNCHANGED sender_thread_
    /\ packet_queue_' = [packet_queue_ EXCEPT ![p] = <<>>]
    /\ UNCHANGED <<state_, sender_running_, in_flight, track_open, written,
                   numbered, audio_sequence_number_, n_audio>>
    /\ UNCHANGED <<cb_new, lib_state, pc_closed, tracks_, data_channels_,
                   crashed, n_sends>>
    /\ UNCHANGED <<roomVars, sigVars, auxVars, videoVars>>

CbJoin(p) ==
    /\ ~crashed
    /\ cb_pc = "join"
    /\ JoinAndClear(p)
    /\ cb_pc' = "idle"
    /\ UNCHANGED close_pc

\* Peer::close, lines 554-562: the two compare-and-swaps on state_
CloseCas(c, p) ==
    /\ ~crashed
    /\ close_pc[c] = "idle"
    /\ IF state_[p] \in {"CONNECTED", "CONNECTING"}
       THEN /\ state_' = [state_ EXCEPT ![p] = "DISCONNECTED"]
            /\ close_pc' = [close_pc EXCEPT ![c] = "stop"]
       ELSE /\ close_pc' = [close_pc EXCEPT ![c] = "returned"]
            /\ UNCHANGED state_
    /\ UNCHANGED <<sender_running_, packet_queue_, in_flight, track_open,
                   written, numbered, audio_sequence_number_, n_audio>>
    /\ UNCHANGED <<cb_pc, cb_new, lib_state, pc_closed, tracks_,
                   data_channels_, sender_thread_, crashed, n_sends>>
    /\ UNCHANGED <<roomVars, sigVars, auxVars, videoVars>>

\* line 567: stop_sender, its compare-and-swap on sender_running_
CloseStop(c, p) ==
    /\ ~crashed
    /\ close_pc[c] = "stop"
    /\ IF sender_running_[p]
       THEN /\ sender_running_' = [sender_running_ EXCEPT ![p] = FALSE]
            /\ close_pc' = [close_pc EXCEPT ![c] = "join"]
       ELSE /\ close_pc' = [close_pc EXCEPT ![c] = "pc"]
            /\ UNCHANGED sender_running_
    /\ UNCHANGED <<state_, packet_queue_, in_flight, track_open, written,
                   numbered, audio_sequence_number_, n_audio>>
    /\ UNCHANGED <<cb_pc, cb_new, lib_state, pc_closed, tracks_,
                   data_channels_, sender_thread_, crashed, n_sends>>
    /\ UNCHANGED <<roomVars, sigVars, auxVars, videoVars>>

CloseJoin(c, p) ==
    /\ ~crashed
    /\ close_pc[c] = "join"
    /\ JoinAndClear(p)
    /\ close_pc' = [close_pc EXCEPT ![c] = "pc"]
    /\ UNCHANGED cb_pc

\* lines 570-577: pc_->close(); the library closes the connection's tracks
ClosePc(c, p) ==
    /\ ~crashed
    /\ close_pc[c] = "pc"
    /\ pc_closed' = TRUE
    /\ track_open' = [track_open EXCEPT ![p] = {}]
    /\ close_pc' = [close_pc EXCEPT ![c] = "tracks"]
    /\ UNCHANGED <<state_, sender_running_, packet_queue_, in_flight, written,
                   numbered, audio_sequence_number_, n_audio>>
    /\ UNCHANGED <<cb_pc, cb_new, lib_state, tracks_, data_channels_,
                   sender_thread_, crashed, n_sends>>
    /\ UNCHANGED <<roomVars, sigVars, auxVars, videoVars>>

\* lines 580-584: the tracks are reset
CloseTracks(c, p) ==
    /\ ~crashed
    /\ close_pc[c] = "tracks"
    /\ tracks_' = [tracks_ EXCEPT ![p] = {}]
    /\ close_pc' = [close_pc EXCEPT ![c] = "channels"]
    /\ UNCHANGED <<cb_pc, cb_new, lib_state, pc_closed, data_channels_,
                   sender_thread_, crashed, n_sends>>
    /\ UNCHANGED <<roomVars, sigVars, auxVars, mediaVars>>

\* lines 587-590: the data channels are cleared, close() is done
CloseChannels(c) ==
    /\ ~crashed
    /\ close_pc[c] = "channels"
    /\ data_channels_' = {}
    /\ close_pc' = [close_pc EXCEPT ![c] = "done"]
    /\ UNCHANGED <<cb_pc, cb_new, lib_state, pc_closed, tracks_,
                   sender_thread_, crashed, n_sends>>
    /\ UNCHANGED <<roomVars, sigVars, auxVars, mediaVars>>

\* A sender offers the next packet of track k: PeerManager::broadcast_video /
\* broadcast_audio, Peer::send_video / send_audio
OfferPacket(k) ==
    /\ ~crashed
    /\ n_sends < MaxSends
    /\ n_sends' = n_sends + 1
    /\ Broadcast(k, <<numbered[k] % UINT16>>)
    /\ UNCHANGED <<state_, sender_running_, in_flight, track_open, written,
                   audio_sequence_number_, n_audio>>
    /\ UNCHANGED <<close_pc, cb_pc, cb_new, lib_state, pc_closed, tracks_,
                   data_channels_, sender_thread_, crashed>>
    /\ UNCHANGED <<roomVars, sigVars, auxVars, videoVars>>

InitClose ==
    /\ room = <<>>
    /\ last_call = NoCall
    /\ SigInit
    /\ MediaInit
    /\ CloseInit
    /\ ExtraInit
    /\ InputInit

\* the peer's sender thread and the library opening a track, while the
\* process is alive and the connection not closed
SenderStep(p) ==
    /\ ~crashed
    /\ sender_thread_ = "joinable"
    /\ SenderDequeue(p) \/ SenderSend(p)
SpawnedStep(p) ==
    /\ ~crashed
    /\ spawned
    /\ SpawnedDequeue(p) \/ SpawnedSend(p)
TrackOpens(p, k) == ~crashed /\ ~pc_closed /\ OnTrackOpen(p, k)

NextClose ==
    \/ \E new \in {"Connecting", "Connected", "Disconnected", "Failed",
                   "Closed"} : LibStateChange(new)
    \/ \E p \in MediaPeers : CbStore(p)
    \/ \E p \in MediaPeers : CbSender(p)
    \/ \E p \in MediaPeers : CbThread(p)
    \/ \E p \in MediaPeers : CbAssign(p)
    \/ \E p \in MediaPeers : CbJoin(p)
    \/ \E p \in MediaPeers : SenderStep(p)
    \/ \E p \in MediaPeers : SpawnedStep(p)
    \/ \E p \in MediaPeers, c \in Closers : CloseCas(c, p)
    \/ \E p \in MediaPeers, c \in Closers : CloseStop(c, p)
    \/ \E p \in MediaPeers, c \in Closers : CloseJoin(c, p)
    \/ \E p \in MediaPeers, c \in Closers : ClosePc(c, p)
    \/ \E p \in MediaPeers, c \in Closers : CloseTracks(c, p)
    \/ \E c \in Closers : CloseChannels(c)
    \/ \E p \in MediaPeers, k \in Kinds : TrackOpens(p, k)
    \/ \E k \in Kinds : OfferPacket(k)

SpecClose == InitClose /\ [][NextClose]_vars

-----------------------------------------------------------------------------
(* Properties of the Room.                                                 *)

NonSpectators(r) == {p \in DOMAIN r.players_ : ~r.players_[p].is_spectator}

\* C1: every member's slot is NONE or one of PLAYER_1..PLAYER_4, and no two
\* members that are not spectators have the same slot.
C1_SlotsValidAndDistinct ==
    room # <<>> =>
        /\ \A p \in DOMAIN TheRoom.players_ :
               TheRoom.players_[p].slot \in {NONE} \cup (PLAYER_1..MAX_PLAYER_SLOT)
        /\ \A p, q \in NonSpectators(TheRoom) :
               p # q => TheRoom.players_[p].slot # TheRoom.players_[q].slot

\* The four player slots are taken and a promotion has just been refused.
C1_Witness ==
    /\ room # <<>>
    /\ {TheRoom.players_[p].slot : p \in NonSpectators(TheRoom)}
           = PLAYER_1..MAX_PLAYER_SLOT
    /\ last_call.op = "promote_to_player"
    /\ last_call.ret = NONE
    /\ last_call.peer \in DOMAIN TheRoom.players_

\* C2: every server gamepad slot in the slot-to-owner map is owned by a
\* current member of the room.
C2_GamepadOwnersAreMembers ==
    room # <<>> =>
        \A s \in DOMAIN TheRoom.gamepad_slot_owners_ :
            TheRoom.gamepad_slot_owners_[s] \in DOMAIN TheRoom.players_

\* A peer that owned gamepad slots has just been removed while another member
\* still owns one.
C2_Witness ==
    /\ room # <<>>
    /\ last_call.op = "remove_peer"
    /\ ~last_call.again
    /\ last_call.owned > 0
    /\ DOMAIN TheRoom.gamepad_slot_owners_ # {}

\* C3: whenever the session room is registered, its host (the peer whose id
\* is the room's host id) is a member of the room and has can_use_keyboard
\* and can_use_mouse both true.
C3_HostIsMemberWithInput ==
    find_room =>
        /\ room # <<>>
        /\ TheRoom.host_peer_id_ \in DOMAIN TheRoom.players_
        /\ TheRoom.players_[TheRoom.host_peer_id_].can_use_keyboard
        /\ TheRoom.players_[TheRoom.host_peer_id_].can_use_mouse

\* The host has just asked to take keyboard access away from itself, in a
\* room that has a guest.
C3_Witness ==
    /\ find_room
    /\ last_call.op = "set_keyboard_access"
    /\ last_call.peer = TheRoom.host_peer_id_
    /\ last_call.arg = 0
    /\ last_call.retb
    /\ Cardinality(DOMAIN TheRoom.players_) > 1

ClaimStep(p, b) ==
    /\ last_call'.op = "claim_gamepad"
    /\ last_call'.peer = p
    /\ last_call'.arg = b

\* C9: claim_gamepad for a (peer, browser gamepad id) pair that already holds
\* a server slot returns that slot and changes nothing in the room, whatever
\* the value of the allocation counter.
C9_RepeatedClaimIsIdempotent ==
    [][\A p \in GamepadPeers, b \in BrowserIds :
          (Mapped(TheRoom, p, b) /\ ClaimStep(p, b)) =>
              /\ last_call'.ret = TheRoom.peer_gamepad_mappings_[p][b]
              /\ room' = room]_vars

\* A claim repeated for the same pair has returned a slot although all
\* sixteen server slots have been allocated.
C9_Witness ==
    /\ room # <<>>
    /\ last_call.op = "claim_gamepad"
    /\ last_call.again
    /\ last_call.ret >= 0
    /\ TheRoom.next_gamepad_slot_ = MAX_GAMEPAD_SLOTS
    /\ Mapped(TheRoom, last_call.peer, last_call.arg)

RemoveStep(p) ==
    /\ last_call'.op = "remove_peer"
    /\ last_call'.peer = p

\* C10: remove_peer(id) returns true exactly when id was a member carrying
\* the host flag, leaves no gamepad slot owned by id and id no member; called
\* again for the same id, it returns false and leaves the room as it was.
C10_RemovePeerIdempotent ==
    [][\A p \in GamepadPeers :
          RemoveStep(p) =>
              /\ last_call'.retb = (/\ p \in DOMAIN TheRoom.players_
                                    /\ TheRoom.players_[p].is_host)
              /\ OwnedSlots(room'[1], p) = {}
              /\ OwnedSlots(TheRoom, p) \cap DOMAIN room'[1].gamepad_slot_owners_ = {}
              /\ p \notin DOMAIN room'[1].peer_gamepad_mappings_
              /\ p \notin DOMAIN room'[1].players_
              /\ p \notin room'[1].peers_
              /\ last_call'.again => (room' = room /\ ~last_call'.retb)]_vars

\* The host, owning gamepad slots, was removed (the call returned true) and
\* remove_peer has just been called for it a second time.
C10_Witness ==
    /\ room # <<>>
    /\ last_call.op = "remove_peer"
    /\ last_call.again
    /\ last_call.first
    /\ last_call.owned > 0
    /\ ~last_call.retb

-----------------------------------------------------------------------------
(* Properties of the media path.                                           *)

Markers(pkts) == {k \in 1..Len(pkts) : pkts[k].marker}

FrameHandled == v_last \in {"discarded", "skipped", "sent", "undefined"}

\* C5 as stated: for every frame the video sender receives, at least one
\* packet is emitted, and exactly one packet has the marker bit, the last.
C5_EveryFrameEmitsOneMarker ==
    FrameHandled => (Len(emitted) >= 1 /\ Markers(emitted) = {Len(emitted)})

\* C5, amended: for every frame of at least three bytes that the video
\* sender packetizes (popped while a peer is CONNECTED, the sender running),
\* at least one packet is emitted, and exactly one packet has the marker
\* bit, the last.
C5_PacketizedFrameEmitsOneMarker ==
    (v_last = "sent" /\ Len(v_frame) >= 3) =>
        (Len(emitted) >= 1 /\ Markers(emitted) = {Len(emitted)})

\* A frame of two NAL units, the first of them fragmented, has been sent.
C5_Witness ==
    /\ v_last = "sent"
    /\ Len(emitted) >= 3
    /\ emitted[1].fu
    /\ ~emitted[Len(emitted)].fu
    /\ emitted[1].nal_start # emitted[Len(emitted)].nal_start

\* the packets cut from the NAL unit that starts at nal_start, in order
PacketsOf(pkts, nal_start) == SelectSeq(pkts, LAMBDA x : x.nal_start = nal_start)

NalBytes(data, pkt) == SubSeq(data, pkt.nal_start + 1, pkt.nal_end)

StartBit(pkt) == (pkt.payload[2] \div 128) % 2 = 1
EndBit(pkt) == (pkt.payload[2] \div 64) % 2 = 1

RECURSIVE Concat(_)
Concat(ss) == IF ss = <<>> THEN <<>> ELSE Head(ss) \o Concat(Tail(ss))

\* the NAL unit a receiver puts together from FU-A fragments: F and NRI from
\* the FU indicator, the type from the FU header, then the fragments' bytes
Reassemble(frags) ==
    <<((frags[1].payload[1] \div 32) * 32) + (frags[1].payload[2] % 32)>>
    \o Concat([k \in 1..Len(frags) |->
                  SubSeq(frags[k].payload, 3, Len(frags[k].payload))])

\* C6: every packet of the H.264 packetizer is a single NAL unit packet whose
\* payload is one whole NAL unit of at most 1200 bytes, or an FU-A fragment;
\* the fragments of a NAL unit have START on the first only and END on the
\* last only, and put together they give the NAL unit's bytes.
C6_SingleNalOrFaithfulFragments ==
    v_last = "sent" =>
        \A k \in 1..Len(emitted) :
            LET pkt == emitted[k]
                frags == PacketsOf(emitted, pkt.nal_start)
            IN  IF ~pkt.fu
                THEN /\ pkt.payload = NalBytes(v_frame, pkt)
                     /\ Len(pkt.payload) <= MAX_RTP_PAYLOAD
                ELSE /\ pkt.payload[1] % 32 = FU_A
                     /\ Len(pkt.payload) <= MAX_RTP_PAYLOAD
                     /\ \A j \in 1..Len(frags) :
                           /\ StartBit(frags[j]) <=> j = 1
                           /\ EndBit(frags[j]) <=> j = Len(frags)
                     /\ Reassemble(frags) = NalBytes(v_frame, pkt)

\* C7: a NAL unit of exactly 1200 bytes is sent as one single NAL unit
\* packet, a NAL unit of 1201 bytes as exactly two FU-A fragments, START on
\* the first and END on the second.
C7_BoundaryOfFragmentation ==
    v_last = "sent" =>
        \A k \in 1..Len(emitted) :
            LET pkt == emitted[k]
                of_nal == PacketsOf(emitted, pkt.nal_start)
            IN  /\ pkt.nal_end - pkt.nal_start = MAX_RTP_PAYLOAD =>
                    /\ Len(of_nal) = 1
                    /\ ~pkt.fu
                    /\ pkt.payload = NalBytes(v_frame, pkt)
                /\ pkt.nal_end - pkt.nal_start = MAX_RTP_PAYLOAD + 1 =>
                    /\ Len(of_nal) = 2
                    /\ of_nal[1].fu /\ of_nal[2].fu
                    /\ StartBit(of_nal[1]) /\ ~EndBit(of_nal[1])
                    /\ ~StartBit(of_nal[2]) /\ EndBit(of_nal[2])

\* A frame made of a start code, 1200 bytes without a start code, another
\* start code and 1201 more bytes has been sent.
C7_Witness ==
    /\ v_last = "sent"
    /\ Len(v_frame) = 4 + MAX_RTP_PAYLOAD + 3 + MAX_RTP_PAYLOAD + 1
    /\ SubSeq(v_frame, 1, 4) = <<0, 0, 0, 1>>
    /\ SubSeq(v_frame, 5 + MAX_RTP_PAYLOAD, 7 + MAX_RTP_PAYLOAD) = <<0, 0, 1>>
    /\ Len(emitted) = 3

\* a start code (00 00 01) begins at offset i of the frame
StartCodeAt(data, i) ==
    i + 3 <= Len(data) /\ SubSeq(data, i + 1, i + 3) = <<0, 0, 1>>

NoStartCode(data) == ~\E i \in 0..(Len(data) - 3) : StartCodeAt(data, i)

\* a start code is followed by the end of the frame or by another start code
HasEmptyNal(data) ==
    \E i \in 0..(Len(data) - 3) :
        /\ StartCodeAt(data, i)
        /\ \/ i + 3 = Len(data)
           \/ StartCodeAt(data, i + 3)
           \/ i + 4 < Len(data) /\ At(data, i + 3) = 0 /\ StartCodeAt(data, i + 4)

\* C8: a frame that holds no start code, or a NAL unit of no bytes, gives no
\* RTP packet (the code has no counter of malformed frames to look at).
C8_MalformedFrameEmitsNothing ==
    (v_last = "sent" /\ (NoStartCode(v_frame) \/ HasEmptyNal(v_frame))) =>
        emitted = <<>>

-----------------------------------------------------------------------------
(* Properties of Peer::close and the peer's state.                         *)

Returned(c) == close_pc[c] \in {"done", "returned"}

\* C11: when two (or more) close() calls on the peer have returned, exactly
\* one of them has performed the teardown, and the peer is in the state a
\* close() leaves: sender stopped, connection closed, tracks and data
\* channels cleared.
C11_ExactlyOneCloseTearsDown ==
    (\A c \in Closers : Returned(c)) =>
        /\ Cardinality({c \in Closers : close_pc[c] = "done"}) = 1
        /\ \A p \in MediaPeers : ~sender_running_[p] /\ tracks_[p] = {}
        /\ pc_closed
        /\ data_channels_ = {}

\* C12: once a close() that went through the teardown has returned, no step
\* of any thread puts a packet on the peer's send queue or writes one to a
\* track.
C12_NoMediaAfterClose ==
    [][(\E c \in Closers : close_pc[c] = "done") =>
          \A p \in MediaPeers :
              /\ Len(packet_queue_'[p]) <= Len(packet_queue_[p])
              /\ written'[p] = written[p]]_vars

\* C15: a peer whose state is DISCONNECTED or FAILED stays in one of the two,
\* and its sender is not started again.
C15_TerminalStatesAbsorbing ==
    [][\A p \in MediaPeers :
          state_[p] \in Terminal =>
              /\ state_'[p] \in Terminal
              /\ sender_running_'[p] => sender_running_[p]]_vars

-----------------------------------------------------------------------------
(* Properties of the peer's send queue.                                    *)

\* which packet a queue entry is: its track and its place among the packets
\* its sender numbered
Ids(q) == [i \in 1..Len(q) |-> <<KindOf(q[i]), q[i].ord>>]

\* the last n elements of a sequence
Suffix(seq, n) == SubSeq(seq, IF Len(seq) > n THEN Len(seq) - n + 1 ELSE 1, Len(seq))

\* the packets of track k a step has numbered and offered to the peers
Offered(k) == [i \in 1..(numbered'[k] - numbered[k]) |-> <<k, numbered[k] + i - 1>>]

\* C13: the send queue of a peer never holds more than MAX_QUEUE_SIZE
\* packets, and a step that enqueues on a peer that is CONNECTED with its
\* sender running leaves the queue as the old queue followed by the new
\* packets, cut at the front to the capacity: the oldest packets go, the
\* newest packet is at the tail.
C13_QueueBoundedDropOldest ==
    [][\A p \in MediaPeers :
          /\ Len(packet_queue_'[p]) <= MAX_QUEUE_SIZE
          /\ \A k \in Kinds :
                (numbered'[k] > numbered[k] /\ state_[p] = "CONNECTED"
                   /\ sender_running_[p]) =>
                    Ids(packet_queue_'[p]) =
                        Suffix(Ids(packet_queue_[p]) \o Offered(k),
                               MAX_QUEUE_SIZE)]_vars

\* The queue of a CONNECTED peer is full of the newest packets of the only
\* frame sent so far, its first packet having been displaced.
C13_Witness ==
    \E p \in MediaPeers :
        /\ state_[p] = "CONNECTED"
        /\ n_frames = 1
        /\ n_audio = 0
        /\ Len(packet_queue_[p]) = MAX_QUEUE_SIZE
        /\ packet_queue_[p][1].ord >= 1
        /\ packet_queue_[p][MAX_QUEUE_SIZE].ord = numbered["video"] - 1

-----------------------------------------------------------------------------
(* Properties of the signaling handlers.                                   *)

\* C16: when the room has four non-spectator players, a join_as_player sent
\* by a spectator of the room is answered with room_full and leaves the Room
\* (slots, spectator flags, permissions) as it was.
C16_FifthPlayerGetsRoomFull ==
    [][\A p \in RoomPeers :
          (/\ find_room_by_peer(p)
           /\ p \in Members
           /\ TheRoom.players_[p].is_spectator
           /\ Cardinality(NonSpectators(TheRoom)) = MAX_PLAYER_SLOT
           /\ HandleJoinAsPlayer(p)) =>
              (reply' = "room_full" /\ room' = room)]_vars

\* A spectator has just been answered room_full in a room whose four slots
\* are held by four players.
C16_Witness ==
    /\ room # <<>>
    /\ reply = "room_full"
    /\ last_call.op = "promote_to_player"
    /\ last_call.peer \in Members
    /\ TheRoom.players_[last_call.peer].is_spectator
    /\ {TheRoom.players_[q].slot : q \in NonSpectators(TheRoom)}
          = 1..MAX_PLAYER_SLOT


\* the browser ids a peer has mapped to server slots
MappingOf(r, p) ==
    IF p \in DOMAIN r.peer_gamepad_mappings_ THEN r.peer_gamepad_mappings_[p]
    ELSE EmptyMap

\* C17: once claims for sixteen distinct (peer, browser id) pairs have
\* succeeded in the room, a claim_gamepad message of a member for a pair
\* that is new is answered with gamepad_error, gives no server slot an
\* owner and leaves the allocation counter alone, and the peer is still a
\* member of the room with its mappings, gamepad ids and slots as before.
C17_SeventeenthClaimFails ==
    [][\A p \in Peers, b \in BrowserIds :
          (/\ Cardinality(claimed) >= MAX_GAMEPAD_SLOTS
           /\ <<p, b>> \notin claimed
           /\ find_room_by_peer(p)
           /\ HandleClaimGamepad(p, b)) =>
              (/\ reply' = "gamepad_error"
               /\ TheRoom'.gamepad_slot_owners_ = TheRoom.gamepad_slot_owners_
               /\ TheRoom'.next_gamepad_slot_ = TheRoom.next_gamepad_slot_
               /\ find_room_by_peer(p)'
               /\ p \in Members'
               /\ TheRoom'.players_ = TheRoom.players_
               /\ MappingOf(TheRoom', p) = MappingOf(TheRoom, p))]_vars

C17_Witness ==
    /\ Cardinality(claimed) >= MAX_GAMEPAD_SLOTS
    /\ reply = "gamepad_error"
    /\ last_call.op = "claim_gamepad"
    /\ <<last_call.peer, last_call.arg>> \notin claimed
    /\ last_call.peer \in Members
    /\ ~TheRoom.players_[last_call.peer].is_spectator
    /\ OwnedSlots(TheRoom, last_call.peer) # {}
    /\ TheRoom.next_gamepad_slot_ = MAX_GAMEPAD_SLOTS

\* the host's set_guest_keyboard message for target with enabled
HostSetsKeyboard(target, enabled) ==
    \E h \in Peers :
        /\ find_room_by_peer(h)
        /\ is_host(TheRoom, h)
        /\ HandleSetGuestKeyboard(h, target, enabled)

\* C18: when the host's set_guest_keyboard(peer, false) for a guest of the
\* room has completed the guest's keyboard permission is off; a permission
\* that is off is turned on by no step but the host's
\* set_guest_keyboard(peer, true); and a keyboard frame of a peer whose
\* permission is off makes no call to the system keyboard function.  So
\* every keyboard frame after the host's disabling is dropped until the host
\* enables the keyboard again.
C18_DisabledKeyboardIsDropped ==
    [][\A p \in Peers :
          /\ (p \in Members /\ ~is_host(TheRoom, p) /\ HostSetsKeyboard(p, FALSE))
                 => ~can_use_keyboard(TheRoom', p)
          /\ (~can_use_keyboard(TheRoom, p) /\ can_use_keyboard(TheRoom', p))
                 => HostSetsKeyboard(p, TRUE)
          /\ (~can_use_keyboard(TheRoom, p) /\ ProcessKeyboard(p))
                 => input_call' = InputCall(p, "none")]_vars

C18_Witness ==
    /\ last_call.op = "set_keyboard_access"
    /\ last_call.arg = B2N(FALSE)
    /\ last_call.retb
    /\ last_call.peer \in Members
    /\ ~TheRoom.players_[last_call.peer].is_spectator
    /\ ~is_host(TheRoom, last_call.peer)
    /\ ~can_use_keyboard(TheRoom, last_call.peer)
    /\ last_call.peer \in pm_peers_
    /\ input_call = InputCall(last_call.peer, "none")

\* an input frame of peer p of any kind
InputFrame(p) ==
    \/ ProcessKeyboard(p)
    \/ \E a \in BOOLEAN : ProcessMouseMove(p, a)
    \/ ProcessMouseButton(p)
    \/ \E dx \in {0, 1}, dy \in {0, 1} : ProcessMouseScroll(p, dx, dy)
    \/ \E b \in BrowserIds : ProcessGamepad(p, b)

\* C19: an input frame (keyboard, mouse or gamepad) of a peer that is a
\* spectator of the room makes no call to the system input.
C19_SpectatorInputNeverForwarded ==
    [][\A p \in Peers :
          (/\ p \in Members
           /\ TheRoom.players_[p].is_spectator
           /\ InputFrame(p)) => input_call' = InputCall(p, "none")]_vars

\* C20: when join_as_player promotes a spectator, the member's
\* can_use_keyboard and can_use_mouse are the room-wide defaults, and the
\* promoted_to_player reply reports these values.
C20_PromotedGetsRoomDefaults ==
    [][\A p \in Peers :
          (/\ find_room_by_peer(p)
           /\ p \in Members
           /\ TheRoom.players_[p].is_spectator
           /\ HandleJoinAsPlayer(p)
           /\ reply' = "promoted_to_player") =>
              LET r == TheRoom'
                  member == r.players_[p]
                  msg == PromotedReply(r, member.slot)
              IN  /\ member.can_use_keyboard = r.default_keyboard_access_
                  /\ member.can_use_mouse = r.default_mouse_access_
                  /\ msg.keyboard_enabled = member.can_use_keyboard
                  /\ msg.mouse_enabled = member.can_use_mouse]_vars

\* C21: a set_guest_keyboard or set_guest_mouse message of a peer that is in
\* the room and is not its host is answered with not_host, and leaves every
\* member's permissions and the room-wide defaults (the whole Room) as they
\* were.
C21_NonHostPermissionRequestRefused ==
    [][\A p \in Peers, t \in Peers, e \in BOOLEAN :
          (/\ find_room_by_peer(p)
           /\ TheRoom.host_peer_id_ # p
           /\ (HandleSetGuestKeyboard(p, t, e) \/ HandleSetGuestMouse(p, t, e)))
              => (reply' = "not_host" /\ room' = room)]_vars

C21_Witness ==
    /\ room # <<>>
    /\ reply = "not_host"
    /\ \E g \in Members :
          /\ TheRoom.host_peer_id_ # g
          /\ g \in peer_to_room_
          /\ TheRoom.players_[g].can_use_keyboard
          /\ ~TheRoom.players_[g].can_use_mouse
    /\ ~TheRoom.default_mouse_access_

\* C22: the steps of on_close are taken in the order registry, room,
\* mapping, each after the one before it has finished: when the room step
\* starts the peer is out of the Peer Registry and still has its connection
\* mapping; when the mapping step starts the peer is out of the registry and
\* out of the room; after the mapping step the mapping is gone.
C22_CleanupInOrder ==
    /\ cleanup \in {<<>>, <<"registry">>, <<"registry", "room">>,
                    <<"registry", "room", "mapping">>}
    /\ oc.pc = "room" =>
          /\ cleanup = <<"registry">>
          /\ oc.peer \notin pm_peers_
          /\ oc.peer \in ws_to_peer_
    /\ oc.pc = "mapping" =>
          /\ cleanup = <<"registry", "room">>
          /\ oc.peer \notin pm_peers_
          /\ oc.peer \notin Members
          /\ oc.peer \in ws_to_peer_
    /\ (oc.pc = "idle" /\ cleanup # <<>>) =>
          /\ cleanup = <<"registry", "room", "mapping">>
          /\ oc.peer \notin ws_to_peer_

C22_Witness ==
    /\ oc.pc = "mapping"
    /\ Notice(1, "player_left", "") \in sent
    /\ last_call.op = "remove_peer"
    /\ last_call.peer = oc.peer

\* C23: when the on_close of the room's host removes it from the room,
\* every member that remained is sent room_closed with reason host_left,
\* the room and every entry of the peer-to-room index are removed, and
\* capture is stopped (the one session room being gone, no room remains).
C23_HostDisconnectClosesRoom ==
    [][\A p \in Peers :
          (/\ find_room_by_peer(p)
           /\ p \in Members
           /\ TheRoom.host_peer_id_ = p
           /\ OnCloseRoom(p)) =>
              (/\ sent' = {Notice(q, "room_closed", "host_left") : q \in Members \ {p}}
               /\ room' = <<>>
               /\ rooms_' = {}
               /\ peer_to_room_' = {}
               /\ capture' = FALSE)]_vars

C23_Witness ==
    /\ oc.pc = "mapping"
    /\ room = <<>>
    /\ rooms_ = {}
    /\ peer_to_room_ = {}
    /\ ~capture
    /\ sent = {Notice(q, "room_closed", "host_left") : q \in Peers \ {oc.peer}}

\* a connection has ended: its read has returned with an error, or the
\* server was stopped
ConnectionEnded(c) ==
    /\ connect_calls[c] > 0
    /\ session_read[c] = "ended" \/ ~ws_running_

\* C24: the disconnect callback is never called more often than the connect
\* callback of its connection, which is called once, and once the
\* connection has ended (remote close, read error, close_connection() or
\* stop()) the disconnect callback has been called exactly once for it.
C24_DisconnectExactlyOnce ==
    \A c \in Conns :
        /\ connect_calls[c] <= 1
        /\ disconnect_calls[c] <= connect_calls[c]
        /\ ConnectionEnded(c) => disconnect_calls[c] = 1

\* C25: when set_remote_description or add_ice_candidate fails for a peer
\* of the registry, the client is sent the error peer_error, and the peer
\* stays in the registry and in its room.
C25_FailedSdpOrIceReported ==
    [][\A p \in Peers :
        (/\ p \in pm_peers_
         /\ \/ \E type \in {"offer", "answer"} : HandleSdp(p, type, FALSE)
            \/ HandleIce(p, FALSE))
        => /\ reply' = "peer_error"
           /\ p \in pm_peers_'
           /\ room' = room]_vars

\* the slots the members that are not spectators hold
HeldSlots(r) == {r.players_[q].slot : q \in NonSpectators(r)}

\* C26: promote_to_player called for a spectator gives it the smallest slot
\* of 1..4 that no member that is not a spectator holds, so a slot a
\* departed player vacated is handed out again; when the four slots are
\* held it returns NONE and changes nothing.
C26_PromotionTakesSmallestFreeSlot ==
    [][\A p \in RoomPeers :
        (/\ room # <<>>
         /\ p \in Members
         /\ TheRoom.players_[p].is_spectator
         /\ PromoteToPlayer(p))
        => LET held == HeldSlots(TheRoom)
               ret == last_call'.ret
           IN  IF (PLAYER_1..MAX_PLAYER_SLOT) \subseteq held
               THEN ret = NONE /\ room' = room
               ELSE /\ ret \in PLAYER_1..MAX_PLAYER_SLOT
                    /\ ret \notin held
                    /\ \A i \in PLAYER_1..(ret - 1) : i \in held
                    /\ room' = <<[TheRoom EXCEPT
                                     !.players_[p].slot = ret,
                                     !.players_[p].is_spectator = FALSE]>>]_vars

\* A promotion has just handed out a slot below one that another player
\* holds: the slot of a player that left.
C26_Witness ==
    /\ room # <<>>
    /\ last_call.op = "promote_to_player"
    /\ last_call.peer \in NonSpectators(TheRoom)
    /\ last_call.ret = TheRoom.players_[last_call.peer].slot
    /\ last_call.ret \in PLAYER_1..MAX_PLAYER_SLOT
    /\ \E q \in NonSpectators(TheRoom) :
           /\ TheRoom.players_[q].slot > last_call.ret
           /\ ~TheRoom.players_[q].is_host
    /\ \A q \in NonSpectators(TheRoom) : ~TheRoom.players_[q].is_host

\* the claimed-slot lists of the members
ClaimedLists(r) == [q \in DOMAIN r.players_ |-> r.players_[q].gamepad_ids]

\* m without its entries of value s
WithoutSlot(m, s) == [b \in {x \in DOMAIN m : m[x] # s} |-> m[b]]

\* C27: release_gamepad called by a peer that does not own the slot, or for
\* a slot nobody owns, leaves the slot-to-owner map, every browser-to-server
\* mapping and every member's claimed-slot list as they were; called by the
\* owner it removes the entries of that slot, and nothing else, from the
\* three.
C27_ReleaseOnlyByOwner ==
    [][last_call'.op = "release_gamepad" =>
        \* the call of the step: ReleaseGamepad(p, s) records p and s
        LET p == last_call'.peer
            s == last_call'.arg
            r == TheRoom
            n == room'[1]
        IN  (room # <<>> /\ ReleaseGamepad(p, s)) =>
               IF ~(s \in DOMAIN r.gamepad_slot_owners_
                    /\ r.gamepad_slot_owners_[s] = p)
               THEN /\ n.gamepad_slot_owners_ = r.gamepad_slot_owners_
                    /\ n.peer_gamepad_mappings_ = r.peer_gamepad_mappings_
                    /\ ClaimedLists(n) = ClaimedLists(r)
               ELSE /\ n.gamepad_slot_owners_ =
                         [x \in DOMAIN r.gamepad_slot_owners_ \ {s} |->
                             r.gamepad_slot_owners_[x]]
                    /\ n.peer_gamepad_mappings_ =
                         [q \in DOMAIN r.peer_gamepad_mappings_ |->
                             IF q = p
                             THEN WithoutSlot(r.peer_gamepad_mappings_[q], s)
                             ELSE r.peer_gamepad_mappings_[q]]
                    /\ ClaimedLists(n) =
                         [q \in DOMAIN r.players_ |->
                             IF q = p
                             THEN SelectSeq(r.players_[q].gamepad_ids,
                                            LAMBDA x : x # s)
                             ELSE r.players_[q].gamepad_ids]]_vars

\* The owner of a slot has just released it while another member keeps a
\* slot of its own.
C27_Witness ==
    /\ room # <<>>
    /\ last_call.op = "release_gamepad"
    /\ last_call.owned = 1
    /\ last_call.peer \in Members
    /\ last_call.arg \notin DOMAIN TheRoom.gamepad_slot_owners_
    /\ \E q \in Members \ {last_call.peer} :
           TheRoom.players_[q].gamepad_ids # <<>>

\* the permission a frame of the type needs: a gamepad frame a member that
\* is no spectator, a keyboard or mouse frame the member's flag
HoldsPermission(r, p, type) ==
    /\ p \in DOMAIN r.players_
    /\ \/ type = 1 /\ ~r.players_[p].is_spectator
       \/ type = 16 /\ r.players_[p].can_use_keyboard
       \/ type \in {32, 33, 34} /\ r.players_[p].can_use_mouse

\* the full length of a frame of the type
FullLength ==
    [type \in {1, 16, 32, 33, 34} |->
        IF type = 1 THEN 14
        ELSE IF type = 16 THEN 5
        ELSE IF type = 33 THEN 3
        ELSE 6]

\* C28: process_input calls a function of the system input, or claims a
\* gamepad, only for a frame that has the full length of its type (14, 5,
\* 6, 3, 6 bytes for the types 0x01, 0x10, 0x20, 0x21, 0x22), from a peer
\* that is in a room and holds the permission the type needs; every other
\* frame, of type 0x02 or of an unknown type included, is dropped: nothing
\* is called and the Room is left as it was.
C28_InputNeedsLengthRoomPermission ==
    [][\/ /\ input_call'.fn = "none"
          /\ room' = room
          /\ claimed' = claimed
       \/ \A p \in Peers, f \in InputFrames :
             \/ /\ f[1] \in DOMAIN FullLength
                /\ f[2] >= FullLength[f[1]]
                /\ room # <<>> /\ p \in peer_to_room_
                /\ HoldsPermission(TheRoom, p, f[1])
             \/ ~ProcessInput(p, f[1], f[2], f[3], f[4], f[5], f[6])]_vars

\* A guest that the host gave the keyboard has just had a keyboard frame
\* forwarded, after a gamepad frame of a guest that is a player has claimed
\* a gamepad.
C28_Witness ==
    /\ room # <<>>
    /\ input_call.fn = "keyboard"
    /\ input_call.peer \in Members \ {1}
    /\ \E c \in claimed : c[1] # 1

\* C29: after every signaling handler the peer-to-room index and the
\* membership of the room agree: find_room_by_peer finds the room for a peer
\* exactly when the peer is a member of it, whatever joins, leaves,
\* join_as_player messages and disconnects came before.
C29_IndexAgreesWithMembership ==
    \A p \in Peers : find_room_by_peer(p) <=> p \in Members

\* no thread is inside start_sender or stop_sender: the callback is not
\* between the compare-and-swap of start_sender and the start of the
\* thread, and neither it nor a close() is between the compare-and-swap of
\* stop_sender and its return
NoSenderCallInProgress ==
    /\ cb_pc \notin {"thread", "assign", "join"}
    /\ \A c \in Closers : close_pc[c] # "join"

\* a step at which a stop_sender call returns: after its join and clear, or
\* at once when its compare-and-swap fails
StopSenderReturns(p) ==
    \/ CbJoin(p)
    \/ \E c \in Closers : CloseJoin(c, p)
    \/ \E c \in Closers : CloseStop(c, p) /\ ~sender_running_[p]
    \/ CbSender(p) /\ cb_new \in Terminal /\ ~sender_running_[p]

\* C30: however start_sender and stop_sender interleave, whenever neither is
\* in progress the peer has a started sender thread exactly when
\* sender_running_ is true, and no stop_sender returns leaving a started
\* sender thread running or unjoined.
C30_SenderThreadMatchesFlag ==
    /\ [](\A p \in MediaPeers :
            (~crashed /\ NoSenderCallInProgress) =>
                (sender_thread_ = "joinable" <=> sender_running_[p]))
    /\ [][\A p \in MediaPeers :
            StopSenderReturns(p) => sender_thread_' # "joinable"]_vars

\* C31: for each peer at most one thread is writing to its media tracks (no
\* two sender threads each hold a packet they have popped to write), and the
\* packets of a track are written in the order in which they were put on the
\* send queue (a written packet is never older than the one written before).
C31_SingleWriterInQueueOrder ==
    \A p \in MediaPeers :
        /\ ~(in_flight[p] # <<>> /\ spawn_flight # <<>>)
        /\ \A k \in Kinds : written[p][k].gap >= 0

\* C32: no thread is inside a library I/O operation (track send, data-channel
\* send, peer-connection creation or close) while it holds the Peer Registry
\* lock, the send-queue lock, the track lock, the data-channel lock or the
\* transport's session lock.
C32_NoLockHeldAcrossIo ==
    \A t \in LockThreads : lk[t].io # "none" => lk[t].held = {}

\* C33: during the shutdown of the module the transport is stopped only when
\* the video sender's thread, the audio sender's thread and the sender thread
\* of every peer have been joined.
C33_TransportStoppedAfterSenders ==
    [][(ws_running_ /\ ~ws_running_') =>
          /\ s_pc = "stopped"
          /\ a_pc = "stopped"
          /\ sender_thread_ = "none"]_vars

\* C34: after VideoSender::stop or AudioSender::stop is called, its thread
\* leaves the loop and stop returns (the join ends), whether or not the
\* encoder produces another packet.
C34_SenderStopReturns ==
    /\ (stop_pc = "video_join") ~> (stop_pc # "video_join")
    /\ (stop_pc = "audio_join") ~> (stop_pc # "audio_join")

\* C35: when a connection's read has failed or reported close, its session
\* is out of the connection table before the disconnect callback runs: while
\* the callback runs and after it the table does not hold the connection,
\* and every send to the connection called from then on returns false.
C35_ErasedBeforeDisconnectCallback ==
    /\ [](\A c \in Conns :
             (in_callback = c \/ disconnect_calls[c] > 0) => c \notin sessions_)
    /\ [][\A c \in Conns :
             (WsSend(c) /\ session_read[c] = "ended") => ~last_send'.ret]_vars

\* a send called while the disconnect callback of its connection runs has
\* returned false
C35_Witness ==
    /\ in_callback # 0
    /\ last_send = [conn |-> in_callback, ret |-> FALSE, ended |-> TRUE]

C37_RepeatedJoinChangesNothing ==
    [][\A p \in Peers :
          (/\ room # <<>>
           /\ p \in DOMAIN TheRoom.players_
           /\ HandleJoin(p)) =>
              (/\ reply' = "join_error"
               /\ pm_peers_' = pm_peers_
               /\ room' = room)]_vars

\* the server slots in the player's list of claimed slots
ListedSlots(r, p) ==
    IF p \in DOMAIN r.players_
    THEN {r.players_[p].gamepad_ids[i] : i \in 1..Len(r.players_[p].gamepad_ids)}
    ELSE {}

\* the server slots the peer's browser ids are mapped to
MappedSlots(r, p) ==
    IF p \in DOMAIN r.peer_gamepad_mappings_
    THEN {r.peer_gamepad_mappings_[p][b] : b \in DOMAIN r.peer_gamepad_mappings_[p]}
    ELSE {}

\* C38: in every state of the Room its three gamepad records agree: slot s
\* has owner p in the slot-to-owner map iff p's browser-to-server map sends a
\* browser id to s iff s is in p's list of claimed slots; and no server slot
\* is the image of two different (peer, browser id) pairs.
C38_GamepadRecordsAgree ==
    room # <<>> =>
        LET r == TheRoom
        IN  /\ \A p \in GamepadPeers :
                   /\ OwnedSlots(r, p) = MappedSlots(r, p)
                   /\ MappedSlots(r, p) = ListedSlots(r, p)
                   /\ p \in DOMAIN r.players_ =>
                          Len(r.players_[p].gamepad_ids) =
                              Cardinality(ListedSlots(r, p))
            /\ \A p, q \in DOMAIN r.peer_gamepad_mappings_ :
                   \A b \in DOMAIN r.peer_gamepad_mappings_[p],
                      c \in DOMAIN r.peer_gamepad_mappings_[q] :
                       r.peer_gamepad_mappings_[p][b] = r.peer_gamepad_mappings_[q][c]
                           => (p = q /\ b = c)

\* two members hold gamepads, another gamepad having been released before
C38_Witness ==
    /\ room # <<>>
    /\ \E p, q \in Members :
           /\ p # q
           /\ OwnedSlots(TheRoom, p) # {}
           /\ OwnedSlots(TheRoom, q) # {}
    /\ Cardinality(DOMAIN TheRoom.gamepad_slot_owners_) <
           TheRoom.next_gamepad_slot_

\* C39: the allocation counter stays in 0..16, never goes down, and is above
\* every slot that has an owner; a claim that maps a new (peer, browser id)
\* pair gets the counter's value, which no earlier claim of the room got,
\* and moves the counter up by one: a released slot is never handed out
\* again, and at most 16 fresh claims succeed in a room.
C39_SlotsNeverReused ==
    /\ [](room # <<>> =>
             /\ TheRoom.next_gamepad_slot_ \in 0..MAX_GAMEPAD_SLOTS
             /\ \A s \in DOMAIN TheRoom.gamepad_slot_owners_ :
                    s < TheRoom.next_gamepad_slot_)
    /\ [][(room # <<>> /\ room' # <<>>) =>
             /\ room'[1].next_gamepad_slot_ >= TheRoom.next_gamepad_slot_
             /\ \A p \in GamepadPeers, b \in BrowserIds :
                    (/\ ~Mapped(TheRoom, p, b)
                     /\ ClaimGamepad(p, b)
                     /\ last_call'.ret >= 0) =>
                        /\ last_call'.ret = TheRoom.next_gamepad_slot_
                        /\ room'[1].next_gamepad_slot_ =
                               TheRoom.next_gamepad_slot_ + 1]_vars

\* the sixteenth slot has been handed out while a lower slot, released
\* before, has no owner
C39_Witness ==
    /\ room # <<>>
    /\ last_call.op = "claim_gamepad"
    /\ ~last_call.again
    /\ last_call.ret = MAX_GAMEPAD_SLOTS - 1
    /\ TheRoom.next_gamepad_slot_ = MAX_GAMEPAD_SLOTS
    /\ \E s \in 0..(MAX_GAMEPAD_SLOTS - 2) :
           s \notin DOMAIN TheRoom.gamepad_slot_owners_

-----------------------------------------------------------------------------
(* The scan for the next start code (video_sender.cpp 171-176 in           *)
(* packetize_h264, 291-296 in packetize_hevc, the same loop): the bytes it *)
(* reads, in the order it reads them.                                      *)

\* i < size - 3 in size_t: for size < 3 the difference wraps around to
\* 2^64 - 3 + size, which is above every index a frame of the model has
InScan(i, size) == IF size >= 3 THEN i < size - 3 ELSE TRUE

\* the indices the test at position i reads (lines 172-173), && and ||
\* evaluated from the left; a read at or behind size is the last one
\* listed, as the value it yields is not defined
TestReads(data, i) ==
    LET size == Len(data)
        in0 == i < size /\ At(data, i) = 0
        in1 == in0 /\ i + 1 < size /\ At(data, i + 1) = 0
        in2 == in1 /\ i + 2 < size /\ At(data, i + 2) = 0
    IN  {i} \cup (IF in0 THEN {i + 1} ELSE {})
            \cup (IF in1 THEN {i + 2} ELSE {})
            \cup (IF in2 THEN {i + 3} ELSE {})

\* lines 171-176: the indices the loop reads from nal_start on; its last
\* round is the first one that is refused by the bound, reads behind the
\* frame or finds a start code
ScanReads(data, nal_start) ==
    LET size == Len(data)
        ends == {i \in nal_start..size :
                    \/ ~InScan(i, size)
                    \/ \E r \in TestReads(data, i) : r >= size
                    \/ IsStartCode(data, i)}
    IN  UNION {TestReads(data, i) :
                  i \in {j \in nal_start..Min(ends) : InScan(j, size)}}

\* lines 155-176: the reads of the scans of all the NAL units from offset
\* on; a scan that left the frame is the last one
RECURSIVE FrameScanReads(_, _)
FrameScanReads(data, offset) ==
    IF offset >= Len(data) THEN {}
    ELSE LET nal_start == NalStart(data, offset)
             reads == ScanReads(data, nal_start)
         IN  IF \E r \in reads : r >= Len(data) THEN reads
             ELSE reads \cup FrameScanReads(data, NalEnd(data, nal_start))

\* lines 155-269: the values of offset at the head of the outer loop
RECURSIVE Offsets(_, _)
Offsets(data, offset) ==
    IF offset >= Len(data) THEN {}
    ELSE {offset} \cup Offsets(data, NalEnd(data, NalStart(data, offset)))

\* C40: for a frame of any length the packetizer has processed, the scan
\* for the next start code read only indices below the frame's size, and
\* every round of the loop over the NAL units moved offset forward, so the
\* loop ends.
C40_ScanReadsBelowSize ==
    v_last \in {"sent", "undefined"} =>
        /\ \A r \in FrameScanReads(v_frame, 0) : r < Len(v_frame)
        /\ Len(v_frame) >= 3 =>
               \A o \in Offsets(v_frame, 0) :
                   NalEnd(v_frame, NalStart(v_frame, o)) > o

============================================================================
